---- MODULE Spec2Model ----
(***************************************************************************)
(* Bayzzer prototype: the derivation graph of the Datalog taint analysis,  *)
(* the Bayesian network built from it, the inference front-end and the     *)
(* campaign loop of the engine, as state machines.                         *)
(*                                                                         *)
(* Python strings are TLA+ strings; identifiers are built with the same    *)
(* concatenations as the f-strings of the source.  A positional argument   *)
(* of a fact is a tagged value, so that str() is a real conversion: the    *)
(* int 1 and the str "1" are different arguments with the same text.       *)
(***************************************************************************)
EXTENDS Integers, Sequences, FiniteSets, TLC

VARIABLES
    dg,         \* the DerivationGraph object: graph (nodes, attrs, edges), facts, rules_applied
    ret,        \* the last call and what it returned
    passed,     \* history: the canonical ids add_fact was called with
    builder,    \* the BayesianNetworkBuilder object: bn_model, evidence
    engine,     \* the BayzzerEngine in run_fuzzing_campaign: position, locals, stats
    loop        \* the apply_rules call in progress: its position and its local `changed`

vars == <<dg, ret, passed, builder, engine, loop>>

\* What the calls on the graph leave alone
beside_graph == <<builder, engine, loop>>

-----------------------------------------------------------------------------
(* Values *)

StrArg(s) == [kind |-> "str", s |-> s]
IntArg(n) == [kind |-> "int", n |-> n]

\* Python's str() on an argument
str(a) == IF a.kind = "int" THEN ToString(a.n) ELSE a.s

\* sep.join(strs)
RECURSIVE join(_, _)
join(sep, strs) ==
    IF Len(strs) = 0 THEN ""
    ELSE IF Len(strs) = 1 THEN strs[1]
    ELSE strs[1] \o sep \o join(sep, Tail(strs))

\* The universe the inputs are drawn from: variable names and source lines.
VarNames == <<"a", "b", "c">>
Vars == {StrArg(VarNames[i]) : i \in 1..Len(VarNames)}
LineNumbers == {1, 2}
Lines == {IntArg(n) : n \in LineNumbers}

\* Code-point order of the texts that occur as arguments and predicates
\* (digits before upper case before lower case).
TextOrder == <<"1", "2", "3", "a", "b", "c">>
PredOrder == <<"Alarm", "Flow", "Input", "Memory", "Taint">>

IndexOf(seq, x) == CHOOSE i \in 1..Len(seq) : seq[i] = x

\* The elements of a set in a list, in one fixed order
RECURSIVE SetToSeq(_)
SetToSeq(S) ==
    IF S = {} THEN <<>>
    ELSE <<CHOOSE x \in S : TRUE>> \o SetToSeq(S \ {CHOOSE x \in S : TRUE})
Range(seq) == {seq[i] : i \in 1..Len(seq)}

-----------------------------------------------------------------------------
(* DerivationGraph *)

NoAttrs == [type |-> "none"]

\* DerivationGraph.__init__
EmptyGraph ==
    [nodes |-> <<>>, attrs |-> <<>>, edges |-> <<>>, facts |-> {}, rules_applied |-> 0]

HasNode(g, n) == n \in DOMAIN g.attrs
HasEdge(g, u, v) == \E i \in 1..Len(g.edges) : g.edges[i] = <<u, v>>
EdgeSet(g) == {g.edges[i] : i \in 1..Len(g.edges)}
NodeSet(g) == DOMAIN g.attrs

\* networkx DiGraph.add_node: a new node is appended to the node order, an
\* existing node keeps its place and takes the attributes given.
add_node(g, n, attr) ==
    IF HasNode(g, n)
    THEN [g EXCEPT !.attrs = [m \in DOMAIN g.attrs |-> IF m = n THEN attr ELSE g.attrs[m]]]
    ELSE [g EXCEPT !.nodes = Append(@, n),
                   !.attrs = [m \in DOMAIN g.attrs \cup {n} |->
                                 IF m = n THEN attr ELSE g.attrs[m]]]

\* networkx DiGraph.add_edge: missing end points are created without
\* attributes, u first; an edge that exists is left where it is.
ensure_node(g, n) == IF HasNode(g, n) THEN g ELSE add_node(g, n, NoAttrs)
append_edge(g, u, v) ==
    IF HasEdge(g, u, v) THEN g ELSE [g EXCEPT !.edges = Append(@, <<u, v>>)]
add_edge(g, u, v) == append_edge(ensure_node(ensure_node(g, u), v), u, v)

\* fact_id = f"{type_name}({', '.join(map(str, args))})"
fact_id(type_name, args) ==
    type_name \o "(" \o join(", ", [i \in 1..Len(args) |-> str(args[i])]) \o ")"

\* DerivationGraph.add_fact: the graph after the call (the call returns fact_id)
\* Mutant: the membership test is dropped, every call stamps the node again.
add_fact_node_unchecked(g, id, type_name, args) ==
    add_node([g EXCEPT !.facts = @ \cup {id}], id,
             [type |-> "fact", predicate |-> type_name, args |-> args])

add_fact_node(g, id, type_name, args) ==
    IF id \notin g.facts
    THEN add_node([g EXCEPT !.facts = @ \cup {id}], id,
                  [type |-> "fact", predicate |-> type_name, args |-> args])
    ELSE g
add_fact(g, type_name, args) == add_fact_node(g, fact_id(type_name, args), type_name, args)

\* Python's order on the identifiers of facts: the rank of the predicate, then
\* the ranks of the argument texts (identifiers of one predicate have one arity
\* and one-character argument texts, so this is the code-point order).
FactKey(type_name, args) ==
    <<IndexOf(PredOrder, type_name)>> \o
    [i \in 1..Len(args) |-> IndexOf(TextOrder, str(args[i]))]

\* What stands for a line in a fact: the lines of the programs, a line given
\* as text, and the line of a third memory operation
LineArgs == Lines \cup {StrArg("1"), IntArg(3)}

FactUniverse ==
    {<<"Input", <<v>>>> : v \in Vars} \cup {<<"Taint", <<v>>>> : v \in Vars}
    \cup {<<"Flow", <<v, w>>>> : v \in Vars, w \in Vars}
    \cup {<<"Memory", <<v, s>>>> : v \in Vars, s \in LineArgs}
    \cup {<<"Alarm", <<s>>>> : s \in LineArgs}

IdKey ==
    [id \in {fact_id(f[1], f[2]) : f \in FactUniverse} |->
        LET f == CHOOSE f \in FactUniverse : fact_id(f[1], f[2]) = id
        IN  FactKey(f[1], f[2])]

KeyLess(k1, k2) ==
    \E i \in 1..Len(k1) :
        /\ i <= Len(k2)
        /\ k1[i] < k2[i]
        /\ \A j \in 1..(i - 1) : k1[j] = k2[j]

StrLess(s, t) == KeyLess(IdKey[s], IdKey[t])

\* sorted(premises): stable, ascending
RECURSIVE sorted(_)
sorted(xs) ==
    IF Len(xs) <= 1 THEN xs
    ELSE LET i == CHOOSE i \in 1..Len(xs) :
                      /\ \A j \in 1..Len(xs) : ~StrLess(xs[j], xs[i])
                      /\ \A j \in 1..(i - 1) : StrLess(xs[i], xs[j])
         IN  <<xs[i]>> \o sorted(SubSeq(xs, 1, i - 1) \o SubSeq(xs, i + 1, Len(xs)))

\* Mutant: the premises are joined in the order given.
premise_key_unsorted(premises) == join("_", premises)

\* premise_key = "_".join(sorted(premises))
premise_key(premises) == join("_", sorted(premises))

\* rule_node_id = f"Rule_{rule_name}_[{premise_key}]->{conclusion}"
rule_node_id(rule_name, premises, conclusion) ==
    "Rule_" \o rule_name \o "_[" \o premise_key(premises) \o "]->" \o conclusion

\* for p in premises: self.graph.add_edge(p, rule_node_id)
RECURSIVE add_premise_edges(_, _, _)
add_premise_edges(g, premises, rule) ==
    IF Len(premises) = 0 THEN g
    ELSE add_premise_edges(add_edge(g, premises[1], rule), Tail(premises), rule)

\* What DerivationGraph.add_rule_application returns
is_new_derivation(g, rule_name, premises, conclusion) ==
    ~HasNode(g, rule_node_id(rule_name, premises, conclusion))

\* DerivationGraph.add_rule_application: the graph after the call
count_rule(g) == [g EXCEPT !.rules_applied = @ + 1]
add_rule_node_recounted(g, id, rule_name, premises, conclusion) ==
    count_rule(
      add_edge(
        add_premise_edges(
          add_node(g, id, [type |-> "rule", rule |-> rule_name]), premises, id),
        id, conclusion))
add_rule_node(g, id, rule_name, premises, conclusion) ==
    IF HasNode(g, id) THEN g
    ELSE count_rule(
           add_edge(
             add_premise_edges(
               add_node(g, id, [type |-> "rule", rule |-> rule_name]), premises, id),
             id, conclusion))
add_rule_application(g, rule_name, premises, conclusion) ==
    add_rule_node(g, rule_node_id(rule_name, premises, conclusion),
                  rule_name, premises, conclusion)

-----------------------------------------------------------------------------
(* apply_rules *)

RECURSIVE Perms(_)
Perms(S) ==
    IF S = {} THEN {<<>>}
    ELSE UNION {{<<x>> \o p : p \in Perms(S \ {x})} : x \in S}

FactsOf(g, pred) == {f \in g.facts : g.attrs[f].predicate = pred}

\* current_facts = list(self.facts) lists a set: its order is not fixed, so
\* facts_by_type holds each predicate's facts in any order.
FactsByType(g) ==
    {[Input |-> i, Taint |-> t, Flow |-> f, Memory |-> m] :
        i \in Perms(FactsOf(g, "Input")), t \in Perms(FactsOf(g, "Taint")),
        f \in Perms(FactsOf(g, "Flow")), m \in Perms(FactsOf(g, "Memory"))}

\* conclusion = self.add_fact(...); if self.add_rule_application(...): changed = True
record_rule_unconditional(g1, changed, rule_name, premises, conclusion) ==
    [g |-> add_rule_application(g1, rule_name, premises, conclusion),
     changed |-> TRUE]
\* if self.add_rule_application(...): changed = True
record_rule(g1, changed, rule_name, premises, conclusion) ==
    [g |-> add_rule_application(g1, rule_name, premises, conclusion),
     changed |-> changed \/ is_new_derivation(g1, rule_name, premises, conclusion)]
fire(st, rule_name, premises, type_name, args) ==
    record_rule(add_fact(st.g, type_name, args), st.changed,
                rule_name, premises, fact_id(type_name, args))

\* R1: Taint(v) :- Input(v)
RECURSIVE r1_loop(_, _)
r1_loop(st, inputs) ==
    IF Len(inputs) = 0 THEN st
    ELSE r1_loop(fire(st, "R1", <<Head(inputs)>>, "Taint",
                      <<st.g.attrs[Head(inputs)].args[1]>>),
                 Tail(inputs))

\* The inner loop of R2 and of R3: for each second premise x whose first
\* argument is the variable of t, conclude type_name(second argument of x).
RECURSIVE inner_loop(_, _, _, _, _)
inner_loop(st, rule_name, t, xs, type_name) ==
    IF Len(xs) = 0 THEN st
    ELSE inner_loop(
           IF st.g.attrs[Head(xs)].args[1] = st.g.attrs[t].args[1]
           THEN fire(st, rule_name, <<t, Head(xs)>>, type_name,
                     <<st.g.attrs[Head(xs)].args[2]>>)
           ELSE st,
           rule_name, t, Tail(xs), type_name)

outer_loop_first(st, rule_name, ts, xs, type_name) ==
    IF Len(ts) = 0 THEN st ELSE inner_loop(st, rule_name, Head(ts), xs, type_name)
RECURSIVE outer_loop(_, _, _, _, _)
outer_loop(st, rule_name, ts, xs, type_name) ==
    IF Len(ts) = 0 THEN st
    ELSE outer_loop(inner_loop(st, rule_name, Head(ts), xs, type_name),
                    rule_name, Tail(ts), xs, type_name)

r2_loop_skipped(st, taints, flows) == st
\* R2: Taint(v2) :- Taint(v1), Flow(v1, v2)
r2_loop(st, taints, flows) == outer_loop(st, "R2", taints, flows, "Taint")

\* R3: Alarm(s) :- Taint(v), Memory(v, s)
r3_loop(st, taints, memories) == outer_loop(st, "R3", taints, memories, "Alarm")

\* One iteration of the while loop of apply_rules, for one listing of the facts
rules_pass(g, facts_by_type) ==
    r3_loop(
      r2_loop(
        r1_loop([g |-> g, changed |-> FALSE], facts_by_type.Input),
        facts_by_type.Taint, facts_by_type.Flow),
      facts_by_type.Taint, facts_by_type.Memory)

\* DerivationGraph.apply_rules: the graphs the loop can end with. The loop
\* is followed for all listings at once: running holds the graphs an
\* iteration can start with, ended the graphs an iteration left unchanged.
passes(running) ==
    UNION {{rules_pass(g, fbt) : fbt \in FactsByType(g)} : g \in running}
RECURSIVE while_changed(_, _)
after_pass(sts, ended) ==
    while_changed({st.g : st \in {x \in sts : x.changed}},
                  ended \cup {st.g : st \in {x \in sts : ~x.changed}})
while_changed(running, ended) ==
    IF running = {} THEN ended ELSE after_pass(passes(running), ended)
apply_rules(g) == while_changed({g}, {})

\* DerivationGraph.get_alarms (n.startswith('Alarm'): every fact of the model
\* whose identifier starts with Alarm has the predicate Alarm)
get_alarms(g) == FactsOf(g, "Alarm")

-----------------------------------------------------------------------------
(* BayesianNetworkBuilder *)

None == "None"

\* An evidence dict: a function from the node ids it has as keys to 0 or 1
NoEvidence == [n \in {} |-> 0]

\* BayesianNetworkBuilder.__init__
\* self.bn_model = None: a record, as the networks are
NoModel == [none |-> TRUE]
NewBuilder == [bn_model |-> NoModel, evidence |-> NoEvidence]

\* temp_graph = nx.DiGraph(self.dg.graph); temp_graph.edges(): the edges
\* source by source in node order, the edges of one source in insertion order
RECURSIVE edges_by_source(_, _)
edges_by_source(g, ns) ==
    IF Len(ns) = 0 THEN <<>>
    ELSE SelectSeq(g.edges, LAMBDA e : e[1] = Head(ns)) \o edges_by_source(g, Tail(ns))

\* nx.is_directed_acyclic_graph: sources are peeled off until none is left
RECURSIVE is_directed_acyclic_graph(_, _)
peel(ns, es, sources) ==
    IF sources = {} THEN FALSE
    ELSE is_directed_acyclic_graph(ns \ sources, {e \in es : e[1] \notin sources})
is_directed_acyclic_graph(ns, es) ==
    IF ns = {} THEN TRUE
    ELSE peel(ns, es, {n \in ns : \A e \in es : e[2] # n})

\* nx.simple_cycles: every elementary cycle once, as a list of its nodes.
\* Here the list starts at the cycle's first node in node order.
RECURSIVE cycles_through(_, _, _, _)
cycles_through(es, start, path, later) ==
    (IF <<path[Len(path)], start>> \in es THEN {path} ELSE {})
    \cup UNION {cycles_through(es, start, Append(path, n), later \ {n}) :
                   n \in {m \in later : <<path[Len(path)], m>> \in es}}
simple_cycles(ns, es) ==
    UNION {cycles_through(es, ns[i], <<ns[i]>>, {ns[j] : j \in (i + 1)..Len(ns)}) :
             i \in 1..Len(ns)}

\* u, v = cycle[-1], cycle[0]. At which of its nodes networkx starts the list
\* of a cycle is not specified: every edge of the cycle is the last-to-first
\* edge of one of its listings.
last_to_first(cycle) == {<<cycle[i], cycle[(i % Len(cycle)) + 1]>> : i \in 1..Len(cycle)}

\* Mutant: only the first cycle of the list is broken.
remove_back_edges_once(cycles, removed) ==
    IF Len(cycles) = 0 THEN {removed}
    ELSE {removed \cup {e} : e \in last_to_first(Head(cycles))}

\* for cycle in cycles: if temp_graph.has_edge(u, v): temp_graph.remove_edge(u, v)
\* The sets of edges the loop can have removed when it ends.
RECURSIVE remove_back_edges(_, _)
remove_back_edges(cycles, removed) ==
    IF Len(cycles) = 0 THEN {removed}
    ELSE UNION {remove_back_edges(Tail(cycles), removed \cup {e}) :
                  e \in last_to_first(Head(cycles))}

\* The edge lists temp_graph can end with
break_cycles(ns, es) ==
    IF is_directed_acyclic_graph(Range(ns), Range(es)) THEN {es}
    ELSE {SelectSeq(es, LAMBDA e : e \notin removed) :
            removed \in remove_back_edges(SetToSeq(simple_cycles(ns, Range(es))), {})}

\* DiscreteBayesianNetwork(temp_graph.edges()); add_nodes_from(temp_graph.nodes()):
\* the nodes in the order of their first appearance in the edge list (source
\* before target), then the others: a node that is there is not added again.
FirstAt(seq) == {i \in 1..Len(seq) : \A j \in 1..(i - 1) : seq[j] # seq[i]}
firsts(seq) ==
    [k \in 1..Cardinality(FirstAt(seq)) |->
        seq[CHOOSE i \in FirstAt(seq) : Cardinality({h \in FirstAt(seq) : h < i}) = k - 1]]
ends(es) == [i \in 1..(2 * Len(es)) |-> es[(i + 1) \div 2][2 - (i % 2)]]
add_edges_from(seq, es) == firsts(seq \o ends(es))
add_nodes_from_skipped(seq, ns) == seq
add_nodes_from(seq, ns) == firsts(seq \o ns)

\* bn_model.get_parents(node): the sources of its edges, in edge order
RECURSIVE get_parents(_, _)
get_parents(es, node) ==
    IF Len(es) = 0 THEN <<>>
    ELSE (IF Head(es)[2] = node THEN <<Head(es)[1]>> ELSE <<>>) \o get_parents(Tail(es), node)

\* self.prior_prob = 0.9, self.rule_prob = 0.9
prior_prob == [num |-> 9, den |-> 10]
rule_prob == [num |-> 9, den |-> 10]

\* itertools.product([0, 1], repeat=k) as a list: the last position toggles fastest
RECURSIVE product(_)
extend(configs) ==
    [i \in 1..(2 * Len(configs)) |-> Append(configs[(i + 1) \div 2], (i + 1) % 2)]
product(k) == IF k = 0 THEN <<<<>>>> ELSE extend(product(k - 1))

all(config) == \A i \in 1..Len(config) : config[i] = 1
any(config) == \E i \in 1..Len(config) : config[i] = 1

\* values_1 of _create_rule_cpd and of _create_or_cpd: P(node = 1) for each
\* column of the table, in the order of product
rule_values_any(num_parents) ==
    [i \in 1..Len(product(num_parents)) |->
        IF any(product(num_parents)[i]) THEN rule_prob ELSE [num |-> 0, den |-> 1]]
rule_values(num_parents) ==
    [i \in 1..Len(product(num_parents)) |->
        IF all(product(num_parents)[i]) THEN rule_prob ELSE [num |-> 0, den |-> 1]]
or_values(num_parents) ==
    [i \in 1..Len(product(num_parents)) |->
        IF any(product(num_parents)[i]) THEN [num |-> 1, den |-> 1] ELSE [num |-> 0, den |-> 1]]

\* The CPD of a node: a prior for a node without parents, _create_rule_cpd
\* (noisy AND) for a rule node, _create_or_cpd (deterministic OR) for a fact.
create_cpd(node, node_type, parents) ==
    IF Len(parents) = 0
    THEN [variable |-> node, evidence |-> parents, kind |-> "prior", p_true |-> prior_prob,
          values |-> <<prior_prob>>]
    ELSE IF node_type = "rule"
    THEN [variable |-> node, evidence |-> parents, kind |-> "and", p_true |-> rule_prob,
          values |-> rule_values(Len(parents))]
    ELSE [variable |-> node, evidence |-> parents, kind |-> "or", p_true |-> [num |-> 1, den |-> 1],
          values |-> or_values(Len(parents))]

\* Step 2 of build_network on a network structure. self.dg.graph.nodes[node]['type']
\* raises KeyError on a node without attributes, before any CPD is added.
with_cpds(g, ns, es) ==
    IF \E n \in Range(ns) : g.attrs[n].type = "none"
    THEN [bn_model |-> [nodes |-> ns, edges |-> es, cpds |-> NoEvidence], raised |-> "KeyError"]
    ELSE [bn_model |-> [nodes |-> ns, edges |-> es,
                        cpds |-> [n \in Range(ns) |->
                                    create_cpd(n, g.attrs[n].type, get_parents(es, n))]],
          raised |-> None]

\* pgmpy refuses a graph with a cycle: the constructor raises ValueError and
\* self.bn_model keeps the value it had.
new_network(g, old_model, es) ==
    IF ~is_directed_acyclic_graph(NodeSet(g), Range(es))
    THEN [bn_model |-> old_model, raised |-> "ValueError"]
    ELSE with_cpds(g, add_nodes_from(add_edges_from(<<>>, es), g.nodes), es)

\* BayesianNetworkBuilder.build_network: the outcomes of the call
build_network(g, old_model) ==
    {new_network(g, old_model, es) : es \in break_cycles(g.nodes, edges_by_source(g, g.nodes))}

set_evidence_if_absent(evidence, variable, value) ==
    [n \in DOMAIN evidence \cup {variable} |->
        IF n \in DOMAIN evidence THEN evidence[n] ELSE (IF value THEN 1 ELSE 0)]
\* BayesianNetworkBuilder.set_evidence: self.evidence[variable] = 1 if value else 0
set_evidence(evidence, variable, value) ==
    [n \in DOMAIN evidence \cup {variable} |->
        IF n = variable THEN (IF value THEN 1 ELSE 0) ELSE evidence[n]]

\* Mutant: the branch of a missing variable is taken for every variable.
clear_evidence_all(evidence, variable) == NoEvidence

\* BayesianNetworkBuilder.clear_evidence: "if variable:" is false for None and
\* for the empty string, and then every entry goes.
clear_evidence(evidence, variable) ==
    IF variable # ""
    THEN IF variable \in DOMAIN evidence
         THEN [n \in DOMAIN evidence \ {variable} |-> evidence[n]]
         ELSE evidence
    ELSE NoEvidence

-----------------------------------------------------------------------------
(* BayesianInference *)

\* Probabilities are exact fractions in lowest terms; nan is 0/0.
RECURSIVE gcd(_, _)
gcd(a, b) == IF b = 0 THEN a ELSE gcd(b, a % b)
lowest_terms(num, den, d) == IF d = 0 THEN [num |-> 0, den |-> 0] ELSE [num |-> num \div d, den |-> den \div d]
Fraction(num, den) == lowest_terms(num, den, gcd(num, den))
float(value) == [num |-> value, den |-> 1]

\* p < q on fractions with positive denominators, without cross products
RECURSIVE frac_less(_, _, _, _)
frac_less(a, b, c, d) ==
    IF a \div b # c \div d THEN a \div b < c \div d
    ELSE IF c % d = 0 THEN FALSE
    ELSE IF a % b = 0 THEN TRUE
    ELSE frac_less(d, c % d, b, a % b)
less(p, q) == p.den # 0 /\ q.den # 0 /\ frac_less(p.num, p.den, q.num, q.den)

\* The joint distribution of the network. Every node with a prior and every
\* rule node with parents draws independently (true with the p_true of its
\* CPD); the state of a node follows: a prior node is its draw, a rule node
\* is its draw and all of its parents, a derived fact is any of its parents.
draws(bn) == SelectSeq(bn.nodes, LAMBDA n : bn.cpds[n].kind \in {"prior", "and"})
RECURSIVE state(_, _, _)
state(bn, drawn, n) ==
    IF bn.cpds[n].kind = "prior" THEN n \in drawn
    ELSE IF bn.cpds[n].kind = "and"
    THEN n \in drawn /\ \A i \in 1..Len(bn.cpds[n].evidence) : state(bn, drawn, bn.cpds[n].evidence[i])
    ELSE \E i \in 1..Len(bn.cpds[n].evidence) : state(bn, drawn, bn.cpds[n].evidence[i])

\* The probability that the nodes of DOMAIN states are in the states given,
\* as a numerator over the product of the denominators of the draws.
RECURSIVE mass(_, _, _, _)
mass(bn, todo, drawn, states) ==
    IF Len(todo) = 0
    THEN IF \A n \in DOMAIN states : state(bn, drawn, n) <=> states[n] = 1 THEN 1 ELSE 0
    ELSE bn.cpds[Head(todo)].p_true.num * mass(bn, Tail(todo), drawn \cup {Head(todo)}, states)
         + (bn.cpds[Head(todo)].p_true.den - bn.cpds[Head(todo)].p_true.num)
             * mass(bn, Tail(todo), drawn, states)

\* inference_engine.query(variables=[variable], evidence=evidence).values[1]:
\* P(variable = 1 | evidence). pgmpy raises when the evidence names a node the
\* network does not have; evidence of probability zero gives nan.
query(bn, variable, evidence) ==
    IF ~(DOMAIN evidence \subseteq Range(bn.nodes))
    THEN [raised |-> TRUE, value |-> float(0)]
    ELSE [raised |-> FALSE,
          value |-> Fraction(mass(bn, draws(bn), {}, set_evidence(evidence, variable, TRUE)),
                             mass(bn, draws(bn), {}, evidence))]

\* n.startswith('Alarm'): of the identifiers of the model, those of Alarm facts
startswith_Alarm(n) == n \in {fact_id("Alarm", <<s>>) : s \in LineArgs}
alarm_nodes(bn) == SelectSeq(bn.nodes, startswith_Alarm)

\* Mutant: an alarm with evidence is queried like the others.
is_pinned_never(evidence, alarm) == FALSE
\* if alarm in self.builder.evidence
is_pinned(evidence, alarm) == alarm \in DOMAIN evidence

\* BayesianInference.compute_alarm_probabilities. results: the dict, its
\* items in insertion order; queries: the alarms query() was called for.
alarm_probability(b, alarm) ==
    IF is_pinned(b.evidence, alarm) THEN float(b.evidence[alarm])
    ELSE query(b.bn_model, alarm, b.evidence).value
compute_alarm_probabilities(b) ==
    [results |-> [i \in 1..Len(alarm_nodes(b.bn_model)) |->
                    <<alarm_nodes(b.bn_model)[i], alarm_probability(b, alarm_nodes(b.bn_model)[i])>>],
     queries |-> SelectSeq(alarm_nodes(b.bn_model), LAMBDA a : ~is_pinned(b.evidence, a))]

\* sorted(probs.items(), key=lambda item: item[1], reverse=True): stable, an
\* item goes behind the items that are not smaller than it.
RECURSIVE insert_descending(_, _)
insert_descending(items, item) ==
    IF Len(items) = 0 THEN <<item>>
    ELSE IF less(Head(items)[2], item[2]) THEN <<item>> \o items
    ELSE <<Head(items)>> \o insert_descending(Tail(items), item)
RECURSIVE sorted_descending(_, _)
sorted_descending(done, items) ==
    IF Len(items) = 0 THEN done
    ELSE sorted_descending(insert_descending(done, Head(items)), Tail(items))

\* BayesianInference.rank_alarms
rank_alarms(b) == sorted_descending(<<>>, compute_alarm_probabilities(b).results)

\* BayesianInference.update_with_feedback
update_with_feedback(evidence, alarm_node, is_true_bug) ==
    set_evidence(evidence, alarm_node, is_true_bug)

\* Mutant: nothing is cleared.
reset_negative_evidence_skipped(evidence) == evidence

\* BayesianInference.reset_negative_evidence: over a copy of the items
RECURSIVE reset_loop(_, _, _)
reset_loop(items, nodes, evidence) ==
    IF Len(nodes) = 0 THEN evidence
    ELSE reset_loop(items, Tail(nodes),
                    IF items[Head(nodes)] = 0 THEN clear_evidence(evidence, Head(nodes))
                    ELSE evidence)
reset_negative_evidence(evidence) == reset_loop(evidence, SetToSeq(DOMAIN evidence), evidence)

-----------------------------------------------------------------------------
(* BayzzerEngine *)

\* BayzzerEngine.__init__: CampaignStats(), the configured interval. pc is
\* the position in run_fuzzing_campaign, reconstructed the history of the
\* rounds in which reconstruction() was called.
NewEngine ==
    [pc |-> "idle", round_idx |-> 0, reconstruction_interval |-> 5,
     alpha |-> [num |-> 1, den |-> 4], targets |-> <<>>, fuzz_results |-> <<>>,
     stats |-> [rounds_run |-> 0, targets_fuzzed |-> 0, unique_bugs |-> <<>>, history |-> <<>>],
     reconstructed |-> {}]

\* self.alarm_lines.get(alarm_id): int(content) of "Alarm(content)", missing
\* (None) when the content is not a number
alarm_line(g, alarm_id) ==
    IF g.attrs[alarm_id].args[1].kind = "int" THEN g.attrs[alarm_id].args[1].n ELSE 0

\* BayzzerEngine.prioritize_targets:
\* num_to_select = max(1, int(len(ranked_alarms) * alpha)); ranked_alarms[:num_to_select]
max(a, b) == IF a >= b THEN a ELSE b
min(a, b) == IF a <= b THEN a ELSE b
first(items, n) == SubSeq(items, 1, min(n, Len(items)))
prioritize_targets_any_number(b, alpha) ==
    first(rank_alarms(b), (Len(alarm_nodes(b.bn_model)) * alpha.num) \div alpha.den)
prioritize_targets(b, alpha) ==
    first(rank_alarms(b), max(1, (Len(alarm_nodes(b.bn_model)) * alpha.num) \div alpha.den))

\* The inputs the fuzzer can find: children of the population, as bytes
Inputs == {"A", "B"}

\* What fuzz_target reports of a target: crashed_target is set only where
\* reached_target is, triggering_input is best_input, the last input that
\* reached the target, b"" when none did
FuzzingResults ==
    {[reached |-> FALSE, crashed |-> FALSE, triggering_input |-> ""]}
    \cup {[reached |-> TRUE, crashed |-> c, triggering_input |-> i] :
             c \in BOOLEAN, i \in Inputs}

\* BayzzerEngine.exploitation_round: the (alarm_id, fuzz_result) list, a
\* target without a line is skipped; found[i] is the result for targets[i]
RECURSIVE exploitation_results(_, _, _)
exploitation_results(g, targets, found) ==
    IF Len(targets) = 0 THEN <<>>
    ELSE (IF alarm_line(g, Head(targets)[1]) = 0 THEN <<>>
          ELSE << <<Head(targets)[1], Head(found)>> >>)
         \o exploitation_results(g, Tail(targets), Tail(found))

\* BugReport(target_line=line, triggering_input=fuzz_result.triggering_input.hex(), ...)
BugReport(line, fuzz_result) ==
    [target_line |-> line, triggering_input |-> fuzz_result.triggering_input]

\* Mutant: the report of a line is the one of its last crash.
RECURSIVE record_bugs_latest(_, _, _)
record_bugs_latest(g, unique_bugs, results) ==
    IF Len(results) = 0 THEN unique_bugs
    ELSE record_bugs_latest(g,
           IF Head(results)[2].crashed
           THEN Append(SelectSeq(unique_bugs,
                                 LAMBDA b : b.target_line # alarm_line(g, Head(results)[1])),
                       BugReport(alarm_line(g, Head(results)[1]), Head(results)[2]))
           ELSE unique_bugs,
           Tail(results))

\* if fuzz_result.crashed:
\*     if not any(b.target_line == line for b in self.stats.unique_bugs): append(bug)
RECURSIVE record_bugs(_, _, _)
record_bugs(g, unique_bugs, results) ==
    IF Len(results) = 0 THEN unique_bugs
    ELSE record_bugs(g,
           IF Head(results)[2].crashed
              /\ ~\E b \in Range(unique_bugs) : b.target_line = alarm_line(g, Head(results)[1])
           THEN Append(unique_bugs, BugReport(alarm_line(g, Head(results)[1]), Head(results)[2]))
           ELSE unique_bugs,
           Tail(results))

\* Mutant: a target that was reached without a crash is penalised too.
feedback_penalising(evidence, alarm_id, result) ==
    update_with_feedback(evidence, alarm_id, result.crashed)

\* The body of the loop of incorporate_feedback
feedback(evidence, alarm_id, result) ==
    IF result.crashed THEN update_with_feedback(evidence, alarm_id, TRUE)
    ELSE IF ~result.reached THEN update_with_feedback(evidence, alarm_id, FALSE)
    ELSE evidence

\* BayzzerEngine.incorporate_feedback
RECURSIVE incorporate_feedback(_, _)
incorporate_feedback(evidence, results) ==
    IF Len(results) = 0 THEN evidence
    ELSE incorporate_feedback(feedback(evidence, Head(results)[1], Head(results)[2]),
                              Tail(results))

\* Mutant: reconstruction is due in the rounds after those of the interval.
reconstruction_due_late(round_idx, reconstruction_interval) ==
    round_idx % reconstruction_interval = 1 % reconstruction_interval

\* if round_idx % self.reconstruction_interval == 0
reconstruction_due(round_idx, reconstruction_interval) ==
    round_idx % reconstruction_interval = 0

-----------------------------------------------------------------------------
(* The graph's interface called freely *)

MaxNodes == 4

Fact(type_name, args) == <<type_name, args>>
Va == StrArg("a")
Vb == StrArg("b")
Vc == StrArg("c")

\* The facts and rule applications the free calls are made with: facts of the
\* tests/test_bayesian_network.py fixture, a line given as int and as str.
ApiFacts ==
    {Fact("Taint", <<Va>>), Fact("Taint", <<Vb>>),
     Fact("Memory", <<Vb, IntArg(1)>>), Fact("Memory", <<Vb, StrArg("1")>>)}
\* (label, premises, conclusion): one application, then the same with the
\* premises in the other order, with another label, with another conclusion
\* and with other premises.
ApiRuleCalls ==
    {<<"R1", <<"Taint(a)", "Taint(b)">>, "Taint(a)">>,
     <<"R1", <<"Taint(b)", "Taint(a)">>, "Taint(a)">>,
     <<"R2", <<"Taint(a)", "Taint(b)">>, "Taint(a)">>,
     <<"R1", <<"Taint(a)", "Taint(b)">>, "Taint(b)">>,
     <<"R1", <<"Taint(b)">>, "Taint(a)">>}

\* No apply_rules call is in progress
NoLoop == [pc |-> "idle", changed |-> FALSE]

InitGraph ==
    /\ dg = EmptyGraph
    /\ ret = [op |-> "init", value |-> "None"]
    /\ passed = {}
    /\ builder = NewBuilder
    /\ engine = NewEngine
    /\ loop = NoLoop

AddFact(type_name, args) ==
    /\ Len(add_fact(dg, type_name, args).nodes) <= MaxNodes
    /\ dg' = add_fact(dg, type_name, args)
    /\ ret' = [op |-> "add_fact", value |-> fact_id(type_name, args)]
    /\ passed' = passed \cup {fact_id(type_name, args)}
    /\ UNCHANGED beside_graph

AddRuleApplication(rule_name, premises, conclusion) ==
    /\ Len(add_rule_application(dg, rule_name, premises, conclusion).nodes) <= MaxNodes
    /\ dg' = add_rule_application(dg, rule_name, premises, conclusion)
    /\ ret' = [op |-> "add_rule_application",
               value |-> is_new_derivation(dg, rule_name, premises, conclusion)]
    /\ UNCHANGED <<passed, beside_graph>>

ApplyRules ==
    /\ dg' \in apply_rules(dg)
    /\ ret' = [op |-> "apply_rules", value |-> "None"]
    /\ UNCHANGED <<passed, beside_graph>>

Next ==
    \/ \E f \in ApiFacts : AddFact(f[1], f[2])
    \/ \E c \in ApiRuleCalls : AddRuleApplication(c[1], c[2], c[3])
    \/ ApplyRules

Spec == InitGraph /\ [][Next]_vars

NextApi ==
    \/ \E f \in ApiFacts : AddFact(f[1], f[2])
    \/ \E c \in ApiRuleCalls : AddRuleApplication(c[1], c[2], c[3])

\* add_fact and add_rule_application only
SpecApi == InitGraph /\ [][NextApi]_vars

-----------------------------------------------------------------------------
(* Properties of the graph's interface *)

FactNodes(g) == {n \in NodeSet(g) : g.attrs[n].type = "fact"}
RuleNodes(g) == {n \in NodeSet(g) : g.attrs[n].type = "rule"}
Preds(g, n) == {e[1] : e \in {x \in EdgeSet(g) : x[2] = n}}
Succs(g, n) == {e[2] : e \in {x \in EdgeSet(g) : x[1] = n}}

\* C9: after any sequence of add_fact calls the fact nodes of the graph (and
\* the facts set) are exactly the canonical ids passed in, and a call whose
\* canonical id is already a fact changes nothing in the graph.
C9_FactsAreCanonicalIds == FactNodes(dg) = passed /\ dg.facts = passed
C9_EqualFactIsNoOp ==
    ret'.op = "add_fact" =>
        \A f \in ApiFacts :
            (AddFact(f[1], f[2]) /\ fact_id(f[1], f[2]) \in dg.facts)
                => (dg' = dg /\ ret'.value \in dg.facts)
C9_Dedup == [](C9_FactsAreCanonicalIds) /\ [][C9_EqualFactIsNoOp]_vars

\* A fact was passed a second time with its line as a str after the int: the
\* node keeps the arguments of the first call.
C9_Witness ==
    /\ ret.op = "add_fact"
    /\ ret.value = "Memory(b, 1)"
    /\ Len(dg.nodes) >= 2
    /\ dg.nodes[1] = "Memory(b, 1)"
    /\ dg.attrs["Memory(b, 1)"].args[2] = IntArg(1)

\* An application with this label, these premises (in any order) and this
\* conclusion is in the graph.
SameApplicationExists(g, rule_name, premises, conclusion) ==
    \E n \in RuleNodes(g) :
        /\ g.attrs[n].rule = rule_name
        /\ Preds(g, n) = Range(premises)
        /\ Succs(g, n) = {conclusion}

\* C10: add_rule_application returns false and changes nothing when the same
\* application (label, premises in any order, conclusion) exists; otherwise it
\* returns true, adds one rule node with an edge from each premise and one edge
\* to the conclusion and adds 1 to rules_applied, so that a conclusion that
\* exists gets one more incoming derivation.
C10_Step(rule_name, premises, conclusion) ==
    IF SameApplicationExists(dg, rule_name, premises, conclusion)
    THEN ret'.value = FALSE /\ dg' = dg
    ELSE /\ ret'.value = TRUE
         /\ dg'.rules_applied = dg.rules_applied + 1
         /\ \E n \in RuleNodes(dg') \ NodeSet(dg) :
               /\ RuleNodes(dg') = RuleNodes(dg) \cup {n}
               /\ NodeSet(dg') = NodeSet(dg) \cup {n, conclusion} \cup Range(premises)
               /\ dg'.attrs[n].rule = rule_name
               /\ EdgeSet(dg') = EdgeSet(dg) \cup {<<q, n>> : q \in Range(premises)}
                                    \cup {<<n, conclusion>>}
               /\ Preds(dg', conclusion) = Preds(dg, conclusion) \cup {n}
               /\ \A m \in NodeSet(dg) : dg'.attrs[m] = dg.attrs[m]
         /\ dg'.facts = dg.facts
C10_RuleApplication ==
    [][ret'.op = "add_rule_application" =>
          \A c \in ApiRuleCalls :
              AddRuleApplication(c[1], c[2], c[3]) => C10_Step(c[1], c[2], c[3])]_vars

\* Taint(a) has two derivations, and the application with the premises in the
\* other order was refused.
C10_Witness ==
    /\ ret.op = "add_rule_application"
    /\ ret.value = FALSE
    /\ Cardinality(Preds(dg, "Taint(a)") \cap RuleNodes(dg)) = 2
    /\ \E n \in RuleNodes(dg) : Cardinality(Preds(dg, n)) = 2

-----------------------------------------------------------------------------
(* The analysis of a parsed program: from_parser, then apply_rules *)

MaxEdb == 4

\* What the front end hands over: input sources, data flows and the
\* (index variable, line) pairs of the memory operations and sink calls.
\* The flows are a chain a -> b -> c, its back edges and a self assignment.
ParsedFlows == {<<Va, Vb>>, <<Vb, Vc>>, <<Vb, Va>>, <<Vc, Va>>, <<Va, Va>>}
ParsedPrograms ==
    {e \in SUBSET ({Fact("Input", <<v>>) : v \in Vars}
                   \cup {Fact("Flow", fl) : fl \in ParsedFlows}
                   \cup {Fact("Memory", <<v, l>>) : v \in Vars, l \in Lines}) :
        Cardinality(e) <= MaxEdb}

RECURSIVE add_facts(_, _)
add_facts(g, fs) ==
    IF Len(fs) = 0 THEN g
    ELSE add_facts(add_fact(g, Head(fs)[1], Head(fs)[2]), Tail(fs))

WithPredicate(e, pred) == {f \in e : f[1] = pred}

\* DerivationGraph.from_parser: Input facts, then Flow facts, then Memory facts
from_parser(e) ==
    add_facts(
      add_facts(
        add_facts(EmptyGraph, SetToSeq(WithPredicate(e, "Input"))),
        SetToSeq(WithPredicate(e, "Flow"))),
      SetToSeq(WithPredicate(e, "Memory")))

FromParser(programs) ==
    /\ ret.op = "init"
    /\ \E e \in programs : dg' = from_parser(e)
    /\ ret' = [op |-> "from_parser", value |-> "None"]
    /\ passed' = dg'.facts
    /\ UNCHANGED beside_graph

NextDatalog == FromParser(ParsedPrograms) \/ ApplyRules

SpecDatalog == InitGraph /\ [][NextDatalog]_vars

\* The variables reachable from the Input variables through Flow facts,
\* computed on the EDB alone.
ArgsOf(g, pred) == {g.attrs[f].args : f \in FactsOf(g, pred)}
FlowStep(g, vs) == vs \cup {fl[2] : fl \in {x \in ArgsOf(g, "Flow") : x[1] \in vs}}
RECURSIVE FlowClosure(_, _)
FlowClosure(g, vs) == IF FlowStep(g, vs) = vs THEN vs ELSE FlowClosure(g, FlowStep(g, vs))
Reachable(g) == FlowClosure(g, {a[1] : a \in ArgsOf(g, "Input")})

\* C2: after apply_rules on an EDB of Input, Flow and Memory facts, Taint(v)
\* is a fact exactly for the variables reachable from an Input variable
\* through Flow facts, and Alarm(s) exactly for the lines s with Memory(v, s)
\* for a tainted v.
C2_TaintAndAlarm ==
    ret.op = "apply_rules" =>
        /\ {a[1] : a \in ArgsOf(dg, "Taint")} = Reachable(dg)
        /\ {a[1] : a \in ArgsOf(dg, "Alarm")} =
               {m[2] : m \in {x \in ArgsOf(dg, "Memory") : x[1] \in Reachable(dg)}}
        /\ \A v \in Vars : fact_id("Taint", <<v>>) \in dg.facts <=> v \in Reachable(dg)

\* Taint went through two Flow steps to the variable of the only Memory fact.
C2_Witness ==
    /\ ret.op = "apply_rules"
    /\ {"Input(a)", "Flow(a, b)", "Flow(b, c)", "Memory(c, 1)", "Memory(a, 2)"} \cap dg.facts
           = {"Input(a)", "Flow(a, b)", "Flow(b, c)", "Memory(c, 1)"}
    /\ get_alarms(dg) = {"Alarm(1)"}
    /\ "Taint(c)" \in dg.facts

-----------------------------------------------------------------------------
(* The network of an analysed program: build_network after apply_rules *)

\* BayzzerEngine.initial_analysis: builder.build_network() on the graph that
\* apply_rules has completed. value: the exception raised, None when the
\* call returned the network.
BuildNetwork ==
    /\ ret.op = "apply_rules"
    /\ builder.bn_model = NoModel
    /\ \E out \in build_network(dg, builder.bn_model) :
          /\ builder' = [builder EXCEPT !.bn_model = out.bn_model]
          /\ ret' = [op |-> "build_network", value |-> out.raised]
    /\ UNCHANGED <<dg, passed, engine, loop>>

\* initial_analysis calls apply_rules before it constructs the builder
NextBuild ==
    \/ FromParser(ParsedPrograms)
    \/ (builder.bn_model = NoModel /\ ApplyRules)
    \/ BuildNetwork

SpecBuild == InitGraph /\ [][NextBuild]_vars

\* The nodes reached from a set of nodes along one or more edges
RECURSIVE Descendants(_, _)
Grow(es, seen, next) == IF next \subseteq seen THEN seen ELSE Descendants(es, seen \cup next)
Descendants(es, seen) == Grow(es, seen, {e[2] : e \in {x \in es : x[1] \in seen}})
OnCycle(es, n) == n \in Descendants(es, {e[2] : e \in {x \in es : x[1] = n}})

\* C3: build_network on a derivation graph, cyclic or not, does not raise, and
\* the network it leaves in bn_model has the graph's nodes, a part of its
\* edges and no cycle.
C3_AcyclicAfterBuild ==
    ret.op = "build_network" =>
        /\ ret.value = None
        /\ builder.bn_model # NoModel
        /\ Range(builder.bn_model.nodes) = NodeSet(dg)
        /\ Range(builder.bn_model.edges) \subseteq EdgeSet(dg)
        /\ \A n \in NodeSet(dg) : ~OnCycle(Range(builder.bn_model.edges), n)

\* A graph with two cycles through Taint(a), the self assignment and the
\* round trip through b, was built into a network that lacks two of its edges.
C3_Witness ==
    /\ ret.op = "build_network"
    /\ {"Input(a)", "Flow(a, a)", "Flow(a, b)", "Flow(b, a)"} \subseteq dg.facts
    /\ OnCycle(EdgeSet(dg) \ {<<"Taint(a)", "Rule_R2_[Flow(a, a)_Taint(a)]->Taint(a)">>}, "Taint(a)")
    /\ OnCycle(EdgeSet(dg) \ {<<"Taint(a)", "Rule_R2_[Flow(a, b)_Taint(a)]->Taint(b)">>}, "Taint(a)")
    /\ Len(builder.bn_model.edges) = Len(dg.edges) - 2

-----------------------------------------------------------------------------
(* Inference on the network of an analysed program *)

MaxNetEdb == 3

\* The programs whose networks are queried: an input, a flow to a second
\* variable, a self assignment and memory operations on two lines.
NetPrograms ==
    {e \in SUBSET {Fact("Input", <<Va>>), Fact("Flow", <<Va, Vb>>), Fact("Flow", <<Va, Va>>),
                   Fact("Memory", <<Va, IntArg(1)>>), Fact("Memory", <<Va, IntArg(2)>>),
                   Fact("Memory", <<Vb, IntArg(2)>>)} :
        Cardinality(e) <= MaxNetEdb}

Built == builder.bn_model # NoModel /\ ret.op # "init" /\ DOMAIN builder.bn_model.cpds # {}

\* inference.update_with_feedback(alarm_node, is_true_bug) for an alarm of the network
UpdateWithFeedback(alarm_node, is_true_bug) ==
    /\ Built
    /\ alarm_node \in Range(alarm_nodes(builder.bn_model))
    /\ builder' = [builder EXCEPT !.evidence = update_with_feedback(@, alarm_node, is_true_bug)]
    /\ ret' = [op |-> "update_with_feedback", args |-> <<alarm_node, is_true_bug>>, value |-> None]
    /\ UNCHANGED <<dg, passed, engine, loop>>

\* inference.reset_negative_evidence(). cleared: the nodes clear_evidence was
\* called for.
ResetNegativeEvidence ==
    /\ Built
    /\ builder' = [builder EXCEPT !.evidence = reset_negative_evidence(@)]
    /\ ret' = [op |-> "reset_negative_evidence", value |-> None,
               cleared |-> {n \in DOMAIN builder.evidence : builder.evidence[n] = 0}]
    /\ UNCHANGED <<dg, passed, engine, loop>>

\* inference.compute_alarm_probabilities()
ComputeAlarmProbabilities ==
    /\ Built
    /\ ret' = [op |-> "compute_alarm_probabilities",
               value |-> compute_alarm_probabilities(builder).results,
               queries |-> compute_alarm_probabilities(builder).queries]
    /\ UNCHANGED <<dg, passed, builder, engine, loop>>

\* inference.rank_alarms()
RankAlarms ==
    /\ Built
    /\ ret' = [op |-> "rank_alarms", value |-> rank_alarms(builder)]
    /\ UNCHANGED <<dg, passed, builder, engine, loop>>

NextNet ==
    \/ FromParser(NetPrograms)
    \/ (builder.bn_model = NoModel /\ ApplyRules)
    \/ BuildNetwork
    \/ (Built /\ \E a \in Range(alarm_nodes(builder.bn_model)), is_true_bug \in BOOLEAN :
                    UpdateWithFeedback(a, is_true_bug))
    \/ ResetNegativeEvidence
    \/ ComputeAlarmProbabilities
    \/ RankAlarms

SpecNet == InitGraph /\ [][NextNet]_vars

\* The items of a ranking as a set, and the probability it gives an alarm
probability_in(items, alarm) == items[CHOOSE i \in 1..Len(items) : items[i][1] = alarm][2]
ranked_probability(b, alarm) == probability_in(rank_alarms(b), alarm)

\* C4: rank_alarms returns every alarm of the network exactly once, sorted by
\* probability descending, and alarms of equal probability in the
\* lexicographic order of their ids.
C4_RankedWithTieBreak ==
    ret.op = "rank_alarms" =>
        /\ {ret.value[i][1] : i \in 1..Len(ret.value)} = get_alarms(dg)
        /\ Len(ret.value) = Cardinality(get_alarms(dg))
        /\ \A i \in 1..Len(ret.value), j \in 1..Len(ret.value) :
              i < j => /\ ~less(ret.value[i][2], ret.value[j][2])
                       /\ ret.value[i][2] = ret.value[j][2]
                              => StrLess(ret.value[i][1], ret.value[j][1])

\* C5: an alarm with an entry in the evidence gets that entry's value as its
\* probability, whatever the other entries are, and no query is made for it.
C5_PinnedVerbatim ==
    ret.op = "compute_alarm_probabilities" =>
        \A i \in 1..Len(ret.value) :
            ret.value[i][1] \in DOMAIN builder.evidence =>
                /\ ret.value[i][2] = float(builder.evidence[ret.value[i][1]])
                /\ ret.value[i][1] \notin Range(ret.queries)

\* Of two alarms one is pinned to 1 and the other, not pinned, was queried
\* and got a probability between 0 and 1.
C5_Witness ==
    /\ ret.op = "compute_alarm_probabilities"
    /\ Len(ret.value) = 2
    /\ \E i \in 1..2, j \in 1..2 :
          /\ ret.value[i][1] \in DOMAIN builder.evidence
          /\ ret.value[i][2] = float(1)
          /\ ret.queries = <<ret.value[j][1]>>
          /\ less(float(0), ret.value[j][2]) /\ less(ret.value[j][2], float(1))

\* C6: reset_negative_evidence removes the entries with value 0 and no other,
\* keeps the entries with value 1 as they are, and a second application
\* changes nothing.
C6_Step ==
    ret'.op = "reset_negative_evidence" =>
        /\ DOMAIN builder'.evidence = {n \in DOMAIN builder.evidence : builder.evidence[n] = 1}
        /\ \A n \in DOMAIN builder'.evidence : builder'.evidence[n] = 1
        /\ reset_negative_evidence(builder'.evidence) = builder'.evidence
C6_ResetNegative == [][C6_Step]_vars

\* A reset cleared one alarm's entry and left the other alarm's entry 1.
C6_Witness ==
    /\ ret.op = "reset_negative_evidence"
    /\ Cardinality(ret.cleared) = 1
    /\ Cardinality(DOMAIN builder.evidence) = 1
    /\ \A n \in DOMAIN builder.evidence : builder.evidence[n] = 1 /\ n \notin ret.cleared

\* Negative feedback on an alarm, then a reset: what the claim says of the
\* alarm's ranked probability before, between and after.
LowerThenRestored(b, alarm) ==
    /\ less(ranked_probability([b EXCEPT !.evidence = update_with_feedback(@, alarm, FALSE)], alarm),
            ranked_probability(b, alarm))
    /\ ranked_probability(
           [b EXCEPT !.evidence = reset_negative_evidence(update_with_feedback(@, alarm, FALSE))],
           alarm) = ranked_probability(b, alarm)
NegativeFeedbackOn(alarm) ==
    /\ ret'.op = "update_with_feedback"
    /\ ret'.args = <<alarm, FALSE>>

\* C7 as stated: from any evidence state, negative evidence on an alarm makes
\* its ranked probability strictly smaller and a following reset restores it.
C7_AnyEvidence ==
    [][\A a \in get_alarms(dg) :
          NegativeFeedbackOn(a) =>
              /\ less(ranked_probability(builder', a), ranked_probability(builder, a))
              /\ LowerThenRestored(builder, a)]_vars

\* C7, amended: from an evidence state without an entry for the alarm and
\* without negative entries, negative evidence on the alarm makes its ranked
\* probability strictly smaller and a following reset restores it.
C7_FromPositiveEvidence ==
    [][\A a \in get_alarms(dg) :
          (/\ NegativeFeedbackOn(a)
           /\ a \notin DOMAIN builder.evidence
           /\ \A n \in DOMAIN builder.evidence : builder.evidence[n] = 1) =>
              /\ less(ranked_probability(builder', a), ranked_probability(builder, a))
              /\ LowerThenRestored(builder, a)]_vars

\* Negative feedback arrived for an alarm while the other alarm was pinned to 1.
C7_Witness ==
    /\ ret.op = "update_with_feedback"
    /\ ret.args[2] = FALSE
    /\ Cardinality(DOMAIN builder.evidence) = 2
    /\ \A n \in DOMAIN builder.evidence : builder.evidence[n] = 0 <=> n = ret.args[1]

-----------------------------------------------------------------------------
(* The campaign: run_fuzzing_campaign *)

MaxRounds == 3

\* The programs fuzzed: an input and memory operations on it at two lines
CampaignPrograms ==
    SUBSET {Fact("Input", <<Va>>), Fact("Memory", <<Va, IntArg(1)>>),
            Fact("Memory", <<Va, IntArg(2)>>)}

\* reconstruction_interval of the configuration, alpha of the call
Intervals == {1, 2, 3}
Alphas == {[num |-> 1, den |-> 4], [num |-> 1, den |-> 1]}

\* run_fuzzing_campaign after analyze_program returned: round_idx = 0
StartCampaign(interval, alpha) ==
    /\ engine.pc = "idle"
    /\ ret.op = "build_network" /\ ret.value = None
    /\ engine' = [engine EXCEPT !.pc = "while", !.reconstruction_interval = interval,
                                !.alpha = alpha]
    /\ UNCHANGED <<dg, ret, passed, builder, loop>>

\* The while test holds: round_idx += 1, rounds_run += 1, then the
\* reconstruction if it is due
reconstruction(b, due) ==
    IF due THEN [b EXCEPT !.evidence = reset_negative_evidence(@)] ELSE b
RoundStart ==
    /\ engine.pc = "while"
    /\ engine.round_idx < MaxRounds
    /\ engine' = [engine EXCEPT
                    !.pc = "prioritize",
                    !.round_idx = @ + 1,
                    !.stats.rounds_run = @ + 1,
                    !.reconstructed =
                        IF reconstruction_due(engine.round_idx + 1, engine.reconstruction_interval)
                        THEN @ \cup {engine.round_idx + 1} ELSE @]
    /\ builder' = reconstruction(builder,
                     reconstruction_due(engine.round_idx + 1, engine.reconstruction_interval))
    /\ ret' = IF reconstruction_due(engine.round_idx + 1, engine.reconstruction_interval)
              THEN [op |-> "reset_negative_evidence", value |-> None,
                    cleared |-> {n \in DOMAIN builder.evidence : builder.evidence[n] = 0}]
              ELSE ret
    /\ UNCHANGED <<dg, passed, loop>>

\* targets = self.prioritize_targets(alpha); if not targets: break
Prioritize ==
    /\ engine.pc = "prioritize"
    /\ engine' = [engine EXCEPT
                    !.targets = prioritize_targets(builder, engine.alpha),
                    !.pc = IF Len(prioritize_targets(builder, engine.alpha)) = 0
                           THEN "cleanup" ELSE "exploit"]
    /\ ret' = [op |-> "prioritize_targets", value |-> prioritize_targets(builder, engine.alpha)]
    /\ UNCHANGED <<dg, passed, builder, loop>>

\* fuzz_results = self.exploitation_round(targets, current_beta)
Exploit ==
    /\ engine.pc = "exploit"
    /\ \E found \in [1..Len(engine.targets) -> FuzzingResults] :
          /\ engine' = [engine EXCEPT
                !.pc = "feedback",
                !.fuzz_results = exploitation_results(dg, engine.targets, found),
                !.stats.targets_fuzzed = @ + Len(exploitation_results(dg, engine.targets, found)),
                !.stats.unique_bugs =
                    record_bugs(dg, @, exploitation_results(dg, engine.targets, found))]
          /\ ret' = [op |-> "exploitation_round",
                     value |-> exploitation_results(dg, engine.targets, found)]
    /\ UNCHANGED <<dg, passed, builder, loop>>

\* self.incorporate_feedback(fuzz_results), then the snapshot of the round
Feedback ==
    /\ engine.pc = "feedback"
    /\ builder' = [builder EXCEPT !.evidence = incorporate_feedback(@, engine.fuzz_results)]
    /\ engine' = [engine EXCEPT
                    !.pc = "while",
                    !.fuzz_results = <<>>,
                    !.targets = <<>>,
                    !.stats.history =
                        Append(@, [round |-> engine.round_idx,
                                   targets_count |-> Len(engine.targets),
                                   bugs_found |-> Len(engine.stats.unique_bugs)])]
    /\ ret' = [op |-> "incorporate_feedback", args |-> <<engine.fuzz_results>>, value |-> None]
    /\ UNCHANGED <<dg, passed, loop>>

\* The while test fails, or the loop was left: cleanup, return self.stats
CampaignEnd ==
    /\ engine.pc \in {"while", "cleanup"}
    /\ engine' = [engine EXCEPT !.pc = "done"]
    /\ ret' = [op |-> "run_fuzzing_campaign", value |-> engine.stats]
    /\ UNCHANGED <<dg, passed, builder, loop>>

NextCampaign ==
    \/ FromParser(CampaignPrograms)
    \/ (builder.bn_model = NoModel /\ ApplyRules)
    \/ BuildNetwork
    \/ \E interval \in Intervals, alpha \in Alphas : StartCampaign(interval, alpha)
    \/ RoundStart
    \/ Prioritize
    \/ Exploit
    \/ Feedback
    \/ CampaignEnd

SpecCampaign == InitGraph /\ [][NextCampaign]_vars

\* The entry of a node in an evidence mapping, -1 for a node without one
entry(evidence, n) == IF n \in DOMAIN evidence THEN evidence[n] ELSE -1

\* C1: incorporate_feedback pins the alarm of a crashed result to 1, the alarm
\* of a result that neither crashed nor reached to 0, leaves the entry of an
\* alarm that was reached without a crash as it was, and changes the entry of
\* no node that is not the alarm of a result to be pinned.
C1_Step ==
    ret'.op = "incorporate_feedback" =>
        /\ \A i \in 1..Len(ret'.args[1]) :
              /\ ret'.args[1][i][2].crashed => entry(builder'.evidence, ret'.args[1][i][1]) = 1
              /\ (~ret'.args[1][i][2].crashed /\ ~ret'.args[1][i][2].reached)
                    => entry(builder'.evidence, ret'.args[1][i][1]) = 0
              /\ (~ret'.args[1][i][2].crashed /\ ret'.args[1][i][2].reached)
                    => entry(builder'.evidence, ret'.args[1][i][1])
                           = entry(builder.evidence, ret'.args[1][i][1])
        /\ \A n \in (DOMAIN builder.evidence \cup DOMAIN builder'.evidence)
                      \ {ret'.args[1][i][1] : i \in 1..Len(ret'.args[1])} :
              entry(builder'.evidence, n) = entry(builder.evidence, n)
        /\ (\A i \in 1..Len(ret'.args[1]) :
                ~ret'.args[1][i][2].crashed /\ ret'.args[1][i][2].reached)
              => builder'.evidence = builder.evidence
C1_FeedbackEvidence == [][C1_Step]_vars

\* One call took a crash at one alarm and a safe arrival at the other, whose
\* negative entry of an earlier round it left in place.
C1_Witness ==
    /\ ret.op = "incorporate_feedback"
    /\ Len(ret.args[1]) = 2
    /\ \E i \in 1..2, j \in 1..2 :
          /\ ret.args[1][i][2].crashed
          /\ ret.args[1][j][2].reached /\ ~ret.args[1][j][2].crashed
          /\ entry(builder.evidence, ret.args[1][i][1]) = 1
          /\ entry(builder.evidence, ret.args[1][j][1]) = 0

\* C8: reconstruction() has run in exactly the rounds so far whose index is a
\* multiple of the interval; a round start changes the evidence only by the
\* reset of such a round; and when the targets of such a round are ranked the
\* evidence holds no negative entry.
C8_Rounds ==
    /\ engine.reconstructed =
          {k \in 1..engine.round_idx : k % engine.reconstruction_interval = 0}
    /\ (engine.pc = "prioritize" /\ engine.round_idx % engine.reconstruction_interval = 0)
          => \A n \in DOMAIN builder.evidence : builder.evidence[n] = 1
C8_RoundStartStep ==
    (engine.pc = "while" /\ engine'.pc = "prioritize") =>
        IF engine'.round_idx % engine.reconstruction_interval = 0
        THEN /\ DOMAIN builder'.evidence = {n \in DOMAIN builder.evidence : builder.evidence[n] = 1}
             /\ ret'.op = "reset_negative_evidence"
        ELSE builder'.evidence = builder.evidence /\ ret' = ret
C8_ReconstructionRounds == [](C8_Rounds) /\ [][C8_RoundStartStep]_vars

\* With interval 2, the start of round 2 cleared negative evidence that the
\* feedback of round 1 had set, and the targets of round 2 are about to be ranked.
C8_Witness ==
    /\ engine.pc = "prioritize"
    /\ engine.reconstruction_interval = 2
    /\ engine.round_idx = 2
    /\ ret.op = "reset_negative_evidence"
    /\ ret.cleared # {}
    /\ engine.reconstructed = {2}

-----------------------------------------------------------------------------
(* apply_rules, one iteration of its while loop at a time *)

\* changed = True, before the while statement is first tested
EnterApplyRules ==
    /\ ret.op \in {"from_parser", "add_fact", "apply_rules"}
    /\ loop.pc = "idle"
    /\ loop' = [pc |-> "while", changed |-> TRUE]
    /\ UNCHANGED <<dg, ret, passed, builder, engine>>

\* while changed: changed = False; current_facts = list(self.facts), then
\* the facts are indexed by predicate
ListFacts ==
    /\ loop.pc = "while"
    /\ loop.changed
    /\ \E fbt \in FactsByType(dg) :
          loop' = [pc |-> "rules", changed |-> FALSE, facts_by_type |-> fbt]
    /\ UNCHANGED <<dg, ret, passed, builder, engine>>

\* The three for statements of the iteration, R1 then R2 then R3
FireRules ==
    /\ loop.pc = "rules"
    /\ dg' = rules_pass(dg, loop.facts_by_type).g
    /\ loop' = [pc |-> "while", changed |-> rules_pass(dg, loop.facts_by_type).changed]
    /\ UNCHANGED <<ret, passed, builder, engine>>

\* while changed: the test fails and the method returns
ReturnApplyRules ==
    /\ loop.pc = "while"
    /\ ~loop.changed
    /\ loop' = NoLoop
    /\ ret' = [op |-> "apply_rules", value |-> "None"]
    /\ UNCHANGED <<dg, passed, builder, engine>>

MaxLoopEdb == 3

\* The parsed programs the loop is followed on
LoopPrograms == {e \in ParsedPrograms : Cardinality(e) <= MaxLoopEdb}

NextPasses ==
    \/ FromParser(LoopPrograms)
    \/ EnterApplyRules
    \/ ListFacts
    \/ FireRules
    \/ ReturnApplyRules

\* FireRules is enabled exactly when loop.pc = "rules" and is the only step
\* that leaves that position: the step as seen on loop alone.
RulesFired == loop.pc = "rules" /\ loop' \in {[pc |-> "while", changed |-> c] : c \in BOOLEAN}

\* The loop is sequential code: a statement that can run does run
SpecPasses ==
    /\ InitGraph /\ [][NextPasses]_vars
    /\ WF_vars(ListFacts) /\ WF_loop(RulesFired) /\ WF_vars(ReturnApplyRules)

C11_Ends == (loop.pc # "idle") ~> (loop.pc = "idle")

\* An iteration that leaves the loop running has added a rule application,
\* and no iteration removes a fact or a rule application.
C11_Pass ==
    [][loop.pc = "rules" /\ loop'.pc = "while"
         => /\ loop'.changed => dg'.rules_applied > dg.rules_applied
            /\ dg.facts \subseteq dg'.facts
            /\ RuleNodes(dg) \subseteq RuleNodes(dg')]_vars

\* C11: apply_rules terminates for every finite EDB, cyclic Flow facts
\* included: every call that has entered the loop returns, every iteration
\* either adds a rule application or is the last one, and the facts and the
\* rule applications only grow.
C11_Terminates == C11_Ends /\ C11_Pass

\* A call has returned on an EDB with Flow(a, b) and Flow(b, a), after
\* tainting both variables.
C11_Witness ==
    /\ ret.op = "apply_rules"
    /\ loop = NoLoop
    /\ {fact_id("Flow", <<Va, Vb>>), fact_id("Flow", <<Vb, Va>>),
        fact_id("Taint", <<Va>>), fact_id("Taint", <<Vb>>)} \subseteq dg.facts

-----------------------------------------------------------------------------
(* Facts added between two calls of apply_rules *)

MaxIncrementalEdb == 3

\* The facts a front end hands over, at once or one by one: two input
\* sources, a flow and its back edge, and memory operations on both variables
EdbFacts ==
    {Fact("Input", <<Va>>), Fact("Input", <<Vb>>),
     Fact("Flow", <<Va, Vb>>), Fact("Flow", <<Vb, Va>>),
     Fact("Memory", <<Vb, IntArg(1)>>), Fact("Memory", <<Va, IntArg(2)>>)}
IncrementalPrograms == {e \in SUBSET EdbFacts : Cardinality(e) <= MaxIncrementalEdb}

\* add_fact from outside, with an Input, Flow or Memory fact, between calls
AddEdbFact(f) ==
    /\ loop.pc = "idle"
    /\ ret.op \in {"from_parser", "apply_rules", "add_fact"}
    /\ Cardinality(passed \cup {fact_id(f[1], f[2])}) <= MaxIncrementalEdb
    /\ dg' = add_fact(dg, f[1], f[2])
    /\ ret' = [op |-> "add_fact", value |-> fact_id(f[1], f[2])]
    /\ passed' = passed \cup {fact_id(f[1], f[2])}
    /\ UNCHANGED beside_graph

NextIncremental ==
    \/ FromParser(IncrementalPrograms)
    \/ \E f \in EdbFacts : AddEdbFact(f)
    \/ EnterApplyRules
    \/ ListFacts
    \/ FireRules
    \/ ReturnApplyRules

SpecIncremental == InitGraph /\ [][NextIncremental]_vars

\* The EDB facts handed over so far, and the fact sets of one run of
\* apply_rules on a graph built from all of them at once
CombinedEdb == {f \in EdbFacts : fact_id(f[1], f[2]) \in passed}
SaturatedOnce == {g.facts : g \in apply_rules(from_parser(CombinedEdb))}

\* A call entered right after a call that returned changes nothing
C12_SecondCall ==
    [][ret.op = "apply_rules" /\ loop.pc = "rules"
         => /\ dg'.facts = dg.facts
            /\ RuleNodes(dg') = RuleNodes(dg)
            /\ dg'.rules_applied = dg.rules_applied]_vars

\* Whenever a call has returned, in one go or after facts were added to a
\* saturated graph, the facts are those of one run on the whole EDB
C12_SameAsOnce ==
    ret.op = "apply_rules" /\ loop.pc = "idle" => SaturatedOnce = {dg.facts}

\* C12: a second apply_rules with no EDB change in between adds no fact and
\* no rule application and leaves rules_applied unchanged; apply_rules after
\* further EDB facts were added to a saturated graph ends with the fact set
\* of a single apply_rules on the combined EDB.
C12_Idempotent == C12_SecondCall /\ []C12_SameAsOnce

\* Input(a) was saturated, Flow(a, b) and Memory(b, 1) were added afterwards
\* and a further call has returned with the alarm.
C12_Witness ==
    /\ ret.op = "apply_rules"
    /\ loop.pc = "idle"
    /\ Len(dg.nodes) >= 4
    /\ dg.nodes[1] = fact_id("Input", <<Va>>)
    /\ dg.nodes[2] = fact_id("Taint", <<Va>>)
    /\ dg.nodes[4] = fact_id("Flow", <<Va, Vb>>)
    /\ fact_id("Alarm", <<IntArg(1)>>) \in dg.facts
    /\ dg.rules_applied = 3

-----------------------------------------------------------------------------
(* The order of the rules within an iteration *)

\* One of the three for statements of an iteration
rule_loop(st, facts_by_type, rule_name) ==
    CASE rule_name = "R1" -> r1_loop(st, facts_by_type.Input)
      [] rule_name = "R2" -> r2_loop(st, facts_by_type.Taint, facts_by_type.Flow)
      [] rule_name = "R3" -> r3_loop(st, facts_by_type.Taint, facts_by_type.Memory)

\* The three for statements in a given order; the source has R1, R2, R3
RECURSIVE rule_loops(_, _, _)
rule_loops(st, facts_by_type, order) ==
    IF Len(order) = 0 THEN st
    ELSE rule_loops(rule_loop(st, facts_by_type, Head(order)), facts_by_type, Tail(order))

RuleOrders == Perms({"R1", "R2", "R3"})

\* An iteration of the while loop with its for statements in the given order
FireRulesIn(order) ==
    /\ loop.pc = "rules"
    /\ dg' = rule_loops([g |-> dg, changed |-> FALSE], loop.facts_by_type, order).g
    /\ loop' = [pc |-> "while",
                changed |-> rule_loops([g |-> dg, changed |-> FALSE],
                                       loop.facts_by_type, order).changed]
    /\ UNCHANGED <<ret, passed, builder, engine>>

NextOrders ==
    \/ FromParser(LoopPrograms)
    \/ EnterApplyRules
    \/ ListFacts
    \/ \E order \in RuleOrders : FireRulesIn(order)
    \/ ReturnApplyRules

SpecOrders == InitGraph /\ [][NextOrders]_vars

\* The parsed program the graph was made from, and what apply_rules as
\* written (R1, R2, R3) ends with on it, for every listing of the facts
ParsedFacts ==
    {Fact("Input", <<v>>) : v \in Vars}
    \cup {Fact("Flow", fl) : fl \in ParsedFlows}
    \cup {Fact("Memory", <<v, l>>) : v \in Vars, l \in Lines}
ParsedEdb == {f \in ParsedFacts : fact_id(f[1], f[2]) \in passed}
AsWritten == apply_rules(from_parser(ParsedEdb))

\* C13: the facts and the rule applications apply_rules ends with do not
\* depend on the order in which an iteration lists the facts nor on the
\* order in which it fires R1, R2 and R3: whatever the orders taken, they
\* are the facts and rule applications of every run of the loop as written.
C13_OrderIndependent ==
    ret.op = "apply_rules" /\ loop.pc = "idle"
      => /\ {g.facts : g \in AsWritten} = {dg.facts}
         /\ {RuleNodes(g) : g \in AsWritten} = {RuleNodes(dg)}

\* A call has returned on Input(a), Flow(a, b), Memory(a, 1) with the rule
\* node of the alarm placed before the rule node of Taint(b): the second
\* iteration fired R3 before R2.
C13_Witness ==
    /\ ret.op = "apply_rules"
    /\ loop.pc = "idle"
    /\ passed = {fact_id("Input", <<Va>>), fact_id("Flow", <<Va, Vb>>),
                 fact_id("Memory", <<Va, IntArg(1)>>)}
    /\ \E i, j \in 1..Len(dg.nodes) :
          /\ i < j
          /\ dg.attrs[dg.nodes[i]].type = "rule" /\ dg.attrs[dg.nodes[i]].rule = "R3"
          /\ dg.attrs[dg.nodes[j]].type = "rule" /\ dg.attrs[dg.nodes[j]].rule = "R2"

-----------------------------------------------------------------------------
(* The CPDs of the built network *)

\* The parents of a node in the network, and the column of a CPD table that
\* holds a given assignment of its evidence variables (TabularCPD: the last
\* evidence variable toggles fastest)
ParentsIn(bn, n) == {e[1] : e \in {x \in Range(bn.edges) : x[2] = n}}
RECURSIVE column_from(_, _, _)
column_from(evidence, assignment, i) ==
    IF i > Len(evidence) THEN 0
    ELSE assignment[evidence[i]] * 2 ^ (Len(evidence) - i)
         + column_from(evidence, assignment, i + 1)
column(evidence, assignment) == 1 + column_from(evidence, assignment, 1)

\* P(n = 1 | parents as assigned) as the claim states it
StatedProbability(node_type, assignment) ==
    IF node_type = "rule"
    THEN IF \A q \in DOMAIN assignment : assignment[q] = 1
         THEN rule_prob ELSE [num |-> 0, den |-> 1]
    ELSE IF \E q \in DOMAIN assignment : assignment[q] = 1
         THEN [num |-> 1, den |-> 1] ELSE [num |-> 0, den |-> 1]

CpdAsStated(g, bn, n) ==
    /\ n \in DOMAIN bn.cpds
    /\ bn.cpds[n].variable = n
    /\ Range(bn.cpds[n].evidence) = ParentsIn(bn, n)
    /\ Len(bn.cpds[n].evidence) = Cardinality(ParentsIn(bn, n))
    /\ Len(bn.cpds[n].values) = 2 ^ Cardinality(ParentsIn(bn, n))
    /\ IF ParentsIn(bn, n) = {}
       THEN bn.cpds[n].values = <<prior_prob>>
       ELSE \A assignment \in [ParentsIn(bn, n) -> {0, 1}] :
              bn.cpds[n].values[column(bn.cpds[n].evidence, assignment)]
                = StatedProbability(g.attrs[n].type, assignment)

\* C14: in the built network every node has one CPD, over its parents in
\* the acyclic graph: the prior for a node without parents, rule_prob when
\* all parents are 1 and 0 otherwise for a rule node, 1 when some parent is
\* 1 and 0 otherwise for a fact node.
C14_Cpds ==
    ret.op = "build_network" /\ ret.value = None
      => /\ DOMAIN builder.bn_model.cpds = Range(builder.bn_model.nodes)
         /\ \A n \in Range(builder.bn_model.nodes) : CpdAsStated(dg, builder.bn_model, n)

\* A network was built in which a rule node has two parents, a fact node
\* has two parents, and a rule node lost a premise to cycle breaking.
C14_Witness ==
    /\ ret.op = "build_network" /\ ret.value = None
    /\ \E n \in RuleNodes(dg) : Cardinality(ParentsIn(builder.bn_model, n)) = 2
    /\ \E n \in FactNodes(dg) : Cardinality(ParentsIn(builder.bn_model, n)) = 2
    /\ \E n \in RuleNodes(dg) :
          Cardinality(ParentsIn(builder.bn_model, n)) < Cardinality(Preds(dg, n))

-----------------------------------------------------------------------------
(* Evidence on the facts of the network *)

MaxPins == 1

\* builder.set_evidence(variable, value) on a fact node of the network.
\* was: the entry the variable had before the call (-1: none).
SetEvidence(variable, value) ==
    /\ Built
    /\ variable \in Range(builder.bn_model.nodes) \cap FactNodes(dg)
    /\ Cardinality(DOMAIN builder.evidence \cup {variable}) <= MaxPins
    /\ builder' = [builder EXCEPT !.evidence = set_evidence(@, variable, value)]
    /\ ret' = [op |-> "set_evidence", args |-> <<variable, value>>, value |-> None,
               was |-> entry(builder.evidence, variable)]
    /\ UNCHANGED <<dg, passed, engine, loop>>

\* The programs whose facts are pinned: the chain from an input through a
\* flow to a memory operation, a self assignment and a memory operation on
\* the input itself
PinPrograms ==
    {e \in SUBSET {Fact("Input", <<Va>>), Fact("Flow", <<Va, Vb>>), Fact("Flow", <<Va, Va>>),
                   Fact("Memory", <<Va, IntArg(1)>>), Fact("Memory", <<Vb, IntArg(2)>>)} :
        Cardinality(e) <= MaxNetEdb}

NextPins ==
    \/ FromParser(PinPrograms)
    \/ (builder.bn_model = NoModel /\ ApplyRules)
    \/ BuildNetwork
    \/ (Built /\ \E n \in Range(builder.bn_model.nodes), value \in BOOLEAN :
                    SetEvidence(n, value))
    \/ ComputeAlarmProbabilities

SpecPins == InitGraph /\ [][NextPins]_vars

\* Whether node n can be true in the network when the node `without` is false
RECURSIVE Derivable(_, _, _)
Derivable(bn, n, without) ==
    /\ n # without
    /\ IF bn.cpds[n].kind = "prior" THEN TRUE
       ELSE IF bn.cpds[n].kind = "and"
       THEN \A q \in Range(bn.cpds[n].evidence) : Derivable(bn, q, without)
       ELSE \E q \in Range(bn.cpds[n].evidence) : Derivable(bn, q, without)

\* Every derivation of the alarm depends on the fact f
DependsOn(bn, alarm, f) == f # alarm /\ f \in Range(bn.nodes) /\ ~Derivable(bn, alarm, f)

Reported(b, alarm) == probability_in(compute_alarm_probabilities(b).results, alarm)
Positive(p) == p.num > 0 /\ p.den > 0
Possible(b) == mass(b.bn_model, draws(b.bn_model), {}, b.evidence) > 0

\* Evidence that can be observed (its probability is not zero) and pins to 0
\* a fact every derivation of an alarm depends on: the alarm is reported 0
C15_PinnedToZero ==
    Built =>
      \A alarm \in Range(alarm_nodes(builder.bn_model)) :
        \A f \in DOMAIN builder.evidence :
          /\ builder.evidence[f] = 0
          /\ DependsOn(builder.bn_model, alarm, f)
          /\ Possible(builder)
          => Reported(builder, alarm) = float(0)

\* After the fact was pinned to 1 over an entry of 0: with no entry of 0
\* left, every alarm is reported with a positive probability
C15_RePinned ==
    Built /\ ret.op = "set_evidence" /\ ret.was = 0 /\ ret.args[2] =>
      /\ builder.evidence[ret.args[1]] = 1
      /\ (\A n \in DOMAIN builder.evidence : builder.evidence[n] = 1) =>
           \A alarm \in Range(alarm_nodes(builder.bn_model)) :
             Positive(Reported(builder, alarm))

\* set_evidence sets the entry of its variable and no other entry
C15_Replaces ==
    [][ret'.op = "set_evidence" =>
         builder'.evidence =
           [n \in DOMAIN builder.evidence \cup {ret'.args[1]} |->
              IF n = ret'.args[1] THEN (IF ret'.args[2] THEN 1 ELSE 0)
              ELSE builder.evidence[n]]]_vars

-----------------------------------------------------------------------------
(* The targets of a round *)

\* floor(alpha * n) for alpha = num / den: the largest m with m * den <= num * n
Floor(alpha, n) == CHOOSE m \in 0..n : m * alpha.den <= alpha.num * n /\ (m + 1) * alpha.den > alpha.num * n

C16_Selected ==
    ret.op = "prioritize_targets" =>
      /\ Len(ret.value) = min(max(1, Floor(engine.alpha, Len(rank_alarms(builder)))),
                              Len(rank_alarms(builder)))
      /\ ret.value = SubSeq(rank_alarms(builder), 1, Len(ret.value))
      /\ Len(rank_alarms(builder)) >= 1
           => Len(ret.value) >= 1 /\ Len(ret.value) <= Len(rank_alarms(builder))
      /\ Len(rank_alarms(builder)) = 0 => ret.value = <<>> /\ engine.pc = "cleanup"

\* With no target the loop is left: no further round starts
C16_LoopLeft == [][engine.pc = "cleanup" => engine'.pc = "done"]_vars

\* C16: in every round prioritize_targets selects the first
\* max(1, floor(alpha * n)) entries of the ranking of n alarms, at least one
\* and at most n of them when n >= 1; for an empty ranking it selects
\* nothing and the campaign loop ends.
C16_Targets == []C16_Selected /\ C16_LoopLeft

\* A round of a campaign with alpha = 1/4 on two alarms has selected the
\* first entry of the ranking only.
C16_Witness ==
    /\ ret.op = "prioritize_targets"
    /\ engine.round_idx >= 2
    /\ Len(rank_alarms(builder)) = 2
    /\ Len(ret.value) = 1

-----------------------------------------------------------------------------
(* The bug reports of a campaign *)

ReportedLines(unique_bugs) == {b.target_line : b \in Range(unique_bugs)}

\* The lines of the targets that crashed in an exploitation round
CrashedLines(g, results) ==
    {alarm_line(g, results[i][1]) : i \in {j \in 1..Len(results) : results[j][2].crashed}}

C17_OnePerLine ==
    \A i, j \in 1..Len(engine.stats.unique_bugs) :
        engine.stats.unique_bugs[i].target_line = engine.stats.unique_bugs[j].target_line
            => i = j

C17_Kept ==
    [][/\ Len(engine'.stats.unique_bugs) >= Len(engine.stats.unique_bugs)
       /\ SubSeq(engine'.stats.unique_bugs, 1, Len(engine.stats.unique_bugs))
            = engine.stats.unique_bugs
       /\ ReportedLines(engine'.stats.unique_bugs) =
            ReportedLines(engine.stats.unique_bugs)
            \cup (IF engine.pc = "exploit" /\ engine'.pc = "feedback"
                  THEN CrashedLines(dg, ret'.value) ELSE {})]_vars

\* C17: the unique bugs hold at most one report per target line; a step of
\* the campaign leaves the reports it found in place and unchanged, and
\* an exploitation round adds reports exactly for the crashed lines that had
\* none.
C17_UniqueBugs == []C17_OnePerLine /\ C17_Kept

\* A line crashed in one round with input "A" and again in a later round
\* with input "B": the report still names "A"
C17_Witness ==
    /\ ret.op = "exploitation_round"
    /\ engine.round_idx >= 2
    /\ \E i \in 1..Len(ret.value) :
          /\ ret.value[i][2].crashed
          /\ ret.value[i][2].triggering_input = "B"
          /\ \E b \in Range(engine.stats.unique_bugs) :
                /\ b.target_line = alarm_line(dg, ret.value[i][1])
                /\ b.triggering_input = "A"

-----------------------------------------------------------------------------
(* A campaign on a program without alarms *)

\* C18: a campaign whose analysis found no alarm counts no round and returns
\* no CampaignStats.
C18_AbortsBeforeLoop ==
    (engine.pc # "idle" /\ get_alarms(dg) = {})
        => /\ engine.stats.rounds_run = 0
           /\ ret.op # "run_fuzzing_campaign"

-----------------------------------------------------------------------------
(* Inference with failing queries *)

\* Mutant: the handler leaves the alarm without an entry.
on_exception_skipping(results, alarm) == results

\* except Exception as e: results[alarm] = 0.0
on_exception(results, alarm) == Append(results, <<alarm, float(0)>>)

\* The loop of compute_alarm_probabilities with its try statement: failing
\* are the alarms whose query raises for a reason of its own, beside the
\* evidence on a node the network does not have, which makes every query
\* raise. results is the dict as its items in insertion order.
RECURSIVE alarm_loop(_, _, _, _)
alarm_loop(b, alarms, failing, results) ==
    IF Len(alarms) = 0 THEN results
    ELSE alarm_loop(b, Tail(alarms), failing,
           IF is_pinned(b.evidence, Head(alarms))
           THEN Append(results, <<Head(alarms), float(b.evidence[Head(alarms)])>>)
           ELSE IF Head(alarms) \in failing
                   \/ query(b.bn_model, Head(alarms), b.evidence).raised
           THEN on_exception(results, Head(alarms))
           ELSE Append(results,
                       <<Head(alarms), query(b.bn_model, Head(alarms), b.evidence).value>>))

\* The alarms for which the handler ran
handled(b, failing) ==
    {a \in Range(alarm_nodes(b.bn_model)) :
        /\ ~is_pinned(b.evidence, a)
        /\ (a \in failing \/ query(b.bn_model, a, b.evidence).raised)}

\* A node id that no network of the programs has
ForeignNode == "Alarm(0)"

\* builder.set_evidence(variable, value) with an id that is not a node of
\* the network: the dict takes any key
SetForeignEvidence(value) ==
    /\ Built
    /\ builder' = [builder EXCEPT !.evidence = set_evidence(@, ForeignNode, value)]
    /\ ret' = [op |-> "set_evidence", args |-> <<ForeignNode, value>>, value |-> None]
    /\ UNCHANGED <<dg, passed, engine, loop>>

\* inference.compute_alarm_probabilities() where the queries of failing raise
ComputeWithFailures(failing) ==
    /\ Built
    /\ ret' = [op |-> "compute_alarm_probabilities",
               value |-> alarm_loop(builder, alarm_nodes(builder.bn_model), failing, <<>>),
               queries |-> compute_alarm_probabilities(builder).queries,
               failed |-> handled(builder, failing)]
    /\ UNCHANGED <<dg, passed, builder, engine, loop>>

\* inference.rank_alarms() where the queries of failing raise
RankWithFailures(failing) ==
    /\ Built
    /\ ret' = [op |-> "rank_alarms",
               value |-> sorted_descending(<<>>,
                            alarm_loop(builder, alarm_nodes(builder.bn_model), failing, <<>>)),
               failed |-> handled(builder, failing)]
    /\ UNCHANGED <<dg, passed, builder, engine, loop>>

NextFailures ==
    \/ FromParser(NetPrograms)
    \/ (builder.bn_model = NoModel /\ ApplyRules)
    \/ BuildNetwork
    \/ (Built /\ \E a \in Range(alarm_nodes(builder.bn_model)), is_true_bug \in BOOLEAN :
                    UpdateWithFeedback(a, is_true_bug))
    \/ \E value \in BOOLEAN : SetForeignEvidence(value)
    \/ (Built /\ \E failing \in SUBSET Range(alarm_nodes(builder.bn_model)) :
                    ComputeWithFailures(failing))
    \/ (Built /\ \E failing \in SUBSET Range(alarm_nodes(builder.bn_model)) :
                    RankWithFailures(failing))

SpecFailures == InitGraph /\ [][NextFailures]_vars

\* The entries an alarm has in a list of (alarm, probability) items
EntriesOf(items, alarm) == {i \in 1..Len(items) : items[i][1] = alarm}

\* C19: whichever queries fail, compute_alarm_probabilities has exactly one
\* entry for every alarm node of the network: 0.0 for an alarm whose query
\* failed, the pinned value or the result of the query for the others; and
\* rank_alarms lists every alarm once, the failed ones with 0.0.
C19_FailedQuery ==
    (ret.op \in {"compute_alarm_probabilities", "rank_alarms"})
      => /\ \A i \in 1..Len(ret.value) : ret.value[i][1] \in Range(alarm_nodes(builder.bn_model))
         /\ \A a \in Range(alarm_nodes(builder.bn_model)) :
              /\ Cardinality(EntriesOf(ret.value, a)) = 1
              /\ probability_in(ret.value, a) =
                    IF a \in ret.failed THEN float(0)
                    ELSE IF is_pinned(builder.evidence, a) THEN float(builder.evidence[a])
                    ELSE query(builder.bn_model, a, builder.evidence).value
         /\ (ret.op = "compute_alarm_probabilities" /\ ret.failed = {})
              => ret.value = compute_alarm_probabilities(builder).results

\* Of two alarms one query failed and the other did not: the ranking has
\* the other first and the failed one behind it with 0.0
C19_Witness ==
    /\ ret.op = "rank_alarms"
    /\ DOMAIN builder.evidence = {}
    /\ Len(ret.value) = 2
    /\ Cardinality(ret.failed) = 1
    /\ ret.value[2][1] \in ret.failed
    /\ ret.value[2][2] = float(0)
    /\ less(float(0), ret.value[1][2])

-----------------------------------------------------------------------------
(* Building the instrumented target *)

\* len(lines) of the source file that is instrumented. The line of an alarm
\* is node.coord.line of the preprocessed program and need not be a line
\* of that file.
SourceLengths == {1, 2}

\* What the compiler run of compile_target does: returncode 0, another
\* returncode, or subprocess.run raises
Compilations == {"ok", "returncode", "exception"}

\* DirectedFuzzer.compile_target. value: what it returns; raised: the
\* exception that leaves it.
compile_target(c_source_lines, target_line, gcc) ==
    IF 0 < target_line /\ target_line <= c_source_lines
    THEN [raised |-> None, value |-> gcc = "ok"]
    ELSE [raised |-> "ValueError", value |-> FALSE]

\* FuzzingResult(target_line, False, False, 0, b"", "Compilation failed")
CompilationFailed == [reached |-> FALSE, crashed |-> FALSE, triggering_input |-> ""]

\* DirectedFuzzer.fuzz_target: found is what the fuzzing loop reports when
\* the target was built
fuzz_target(c_source_lines, target_line, gcc, found) ==
    IF compile_target(c_source_lines, target_line, gcc).raised # None
    THEN [raised |-> compile_target(c_source_lines, target_line, gcc).raised,
          value |-> CompilationFailed]
    ELSE [raised |-> None,
          value |-> IF compile_target(c_source_lines, target_line, gcc).value
                    THEN found ELSE CompilationFailed]

\* The scratch files under work_dir after compile_target: the instrumented
\* source is written once the line was found in the file, the executable by
\* a compiler run that succeeds; what is there from an earlier target stays.
written(scratch, c_source_lines, target_line, gcc) ==
    IF compile_target(c_source_lines, target_line, gcc).raised # None THEN scratch
    ELSE scratch \cup {"instrumented_source"}
                 \cup (IF gcc = "ok" THEN {"executable"} ELSE {})

\* DirectedFuzzer.cleanup: both paths are removed where they exist
cleanup(scratch) == scratch \ {"instrumented_source", "executable"}

\* BayzzerEngine.exploitation_round, target by target: an exception of
\* fuzz_target leaves the loop with what the targets before it changed.
RECURSIVE exploitation_loop(_, _, _, _, _, _)
exploitation_loop(g, c_source_lines, targets, gcc, found, done) ==
    IF Len(targets) = 0 \/ done.raised # None THEN done
    ELSE IF alarm_line(g, Head(targets)[1]) = 0
    THEN exploitation_loop(g, c_source_lines, Tail(targets), Tail(gcc), Tail(found), done)
    ELSE IF fuzz_target(c_source_lines, alarm_line(g, Head(targets)[1]),
                        Head(gcc), Head(found)).raised # None
    THEN [done EXCEPT !.raised = "ValueError"]
    ELSE exploitation_loop(g, c_source_lines, Tail(targets), Tail(gcc), Tail(found),
           [results |-> Append(done.results,
                          <<Head(targets)[1],
                            fuzz_target(c_source_lines, alarm_line(g, Head(targets)[1]),
                                        Head(gcc), Head(found)).value>>),
            targets_fuzzed |-> done.targets_fuzzed + 1,
            unique_bugs |-> record_bugs(g, done.unique_bugs,
                               << <<Head(targets)[1],
                                    fuzz_target(c_source_lines, alarm_line(g, Head(targets)[1]),
                                                Head(gcc), Head(found)).value>> >>),
            scratch |-> written(done.scratch, c_source_lines,
                                alarm_line(g, Head(targets)[1]), Head(gcc)),
            raised |-> None])

\* run_fuzzing_campaign on a source file of c_source_lines lines
StartCampaignOn(interval, alpha, c_source_lines) ==
    /\ engine.pc = "idle"
    /\ ret.op = "build_network" /\ ret.value = None
    /\ engine' = [pc |-> "while", round_idx |-> 0, reconstruction_interval |-> interval,
                  alpha |-> alpha, targets |-> <<>>, fuzz_results |-> <<>>,
                  stats |-> engine.stats, reconstructed |-> {},
                  c_source_lines |-> c_source_lines, scratch |-> {}]
    /\ UNCHANGED <<dg, ret, passed, builder, loop>>

\* fuzz_results = self.exploitation_round(targets, current_beta) with the
\* build of every target: an exception leaves run_fuzzing_campaign. builds:
\* the compiler run of each target.
ExploitBuilt ==
    /\ engine.pc = "exploit"
    /\ "c_source_lines" \in DOMAIN engine
    /\ \E gcc \in [1..Len(engine.targets) -> Compilations],
          found \in [1..Len(engine.targets) -> FuzzingResults] :
          LET out == exploitation_loop(dg, engine.c_source_lines, engine.targets, gcc, found,
                        [results |-> <<>>, targets_fuzzed |-> engine.stats.targets_fuzzed,
                         unique_bugs |-> engine.stats.unique_bugs,
                         scratch |-> engine.scratch, raised |-> None])
          IN  /\ engine' = [engine EXCEPT
                    !.pc = IF out.raised # None THEN "raised" ELSE "feedback",
                    !.fuzz_results = IF out.raised # None THEN <<>> ELSE out.results,
                    !.stats.targets_fuzzed = out.targets_fuzzed,
                    !.stats.unique_bugs = out.unique_bugs,
                    !.scratch = out.scratch]
              /\ ret' = IF out.raised # None
                        THEN [op |-> "run_fuzzing_campaign", value |-> None,
                              raised |-> out.raised, builds |-> gcc]
                        ELSE [op |-> "exploitation_round", value |-> out.results,
                              raised |-> None, builds |-> gcc]
    /\ UNCHANGED <<dg, passed, builder, loop>>

\* The while test fails, or the loop was left: self.fuzzer.cleanup(), return
\* self.stats
CampaignEndCleaned ==
    /\ engine.pc \in {"while", "cleanup"}
    /\ "scratch" \in DOMAIN engine
    /\ engine' = [engine EXCEPT !.pc = "done", !.scratch = cleanup(@)]
    /\ ret' = [op |-> "run_fuzzing_campaign", value |-> engine.stats]
    /\ UNCHANGED <<dg, passed, builder, loop>>

NextBuilds ==
    \/ FromParser(CampaignPrograms)
    \/ (builder.bn_model = NoModel /\ ApplyRules)
    \/ BuildNetwork
    \/ \E interval \in Intervals, alpha \in Alphas, c_source_lines \in SourceLengths :
          StartCampaignOn(interval, alpha, c_source_lines)
    \/ RoundStart
    \/ Prioritize
    \/ ExploitBuilt
    \/ Feedback
    \/ CampaignEndCleaned

SpecBuilds == InitGraph /\ [][NextBuilds]_vars

\* The build of targets[i] failed: compile_target raised or returned False
BuildFailed(e, builds, i) ==
    \/ compile_target(e.c_source_lines, alarm_line(dg, e.targets[i][1]), builds[i]).raised # None
    \/ ~compile_target(e.c_source_lines, alarm_line(dg, e.targets[i][1]), builds[i]).value

C20_Recovered ==
    [][(engine.pc = "exploit" /\ "builds" \in DOMAIN ret')
        => /\ engine'.pc = "feedback"
           /\ engine'.stats.targets_fuzzed = engine.stats.targets_fuzzed + Len(engine.targets)
           /\ \A i \in 1..Len(engine.targets) :
                BuildFailed(engine, ret'.builds, i)
                  => /\ ret'.value[i] = <<engine.targets[i][1], CompilationFailed>>
                     /\ alarm_line(dg, engine.targets[i][1])
                            \in ReportedLines(engine'.stats.unique_bugs)
                          => alarm_line(dg, engine.targets[i][1])
                                \in ReportedLines(engine.stats.unique_bugs)]_vars

C20_Negative ==
    [][(engine.pc = "feedback" /\ engine'.pc = "while" /\ "builds" \in DOMAIN ret)
        => \A i \in 1..Len(engine.targets) :
              BuildFailed(engine, ret.builds, i)
                => entry(builder'.evidence, engine.targets[i][1]) = 0]_vars

\* C20: whenever the build of a target fails, the exploitation round goes on
\* to its end with a result (reached false, crashed false) for that target,
\* counts it in targets_fuzzed and adds no report for it, and the feedback of
\* the round pins its alarm to 0.
C20_BuildFailure == C20_Recovered /\ C20_Negative

-----------------------------------------------------------------------------
(* Reconstruction next to positive evidence *)

\* bn_config of BayzzerEngine.analyze_program: the prior_probability and the
\* rule_probability of a configuration file
ConfiguredProbability == [num |-> 1, den |-> 2]

\* self.bn_builder.prior_prob = bn_config['prior_probability'] and
\* self.bn_builder.rule_prob = bn_config['rule_probability'] before
\* build_network: the CPD that create_cpd gives with these two values
configured_cpd(cpd, prior, rule) ==
    IF cpd.kind = "prior" THEN [cpd EXCEPT !.p_true = prior, !.values = <<prior>>]
    ELSE IF cpd.kind = "and"
    THEN [cpd EXCEPT !.p_true = rule,
                     !.values = [i \in DOMAIN @ |-> IF @[i] = rule_prob THEN rule ELSE @[i]]]
    ELSE cpd
configured(bn, prior, rule) ==
    IF bn = NoModel THEN bn
    ELSE [bn EXCEPT !.cpds = [n \in DOMAIN @ |-> configured_cpd(@[n], prior, rule)]]

\* Step 4 of analyze_program with a configuration that sets both probabilities
BuildConfigured(prior, rule) ==
    /\ ret.op = "apply_rules"
    /\ builder.bn_model = NoModel
    /\ \E out \in build_network(dg, builder.bn_model) :
          /\ builder' = [builder EXCEPT !.bn_model = configured(out.bn_model, prior, rule)]
          /\ ret' = [op |-> "build_network", value |-> out.raised]
    /\ UNCHANGED <<dg, passed, engine, loop>>

\* Two inputs used at a common line and at a line of their own
ReconstructedPrograms ==
    {{Fact("Input", <<Va>>), Fact("Input", <<Vb>>),
      Fact("Memory", <<Va, IntArg(1)>>), Fact("Memory", <<Vb, IntArg(1)>>),
      Fact("Memory", <<Va, IntArg(2)>>), Fact("Memory", <<Vb, IntArg(3)>>)}}

\* The evidence of a campaign: feedback on alarms, cleared by reconstruction
NextReconstructed ==
    \/ FromParser(ReconstructedPrograms)
    \/ (builder.bn_model = NoModel /\ ApplyRules)
    \/ BuildConfigured(ConfiguredProbability, ConfiguredProbability)
    \/ (Built /\ \E a \in Range(alarm_nodes(builder.bn_model)), is_true_bug \in BOOLEAN :
                    UpdateWithFeedback(a, is_true_bug))
    \/ ResetNegativeEvidence

SpecReconstructed == InitGraph /\ [][NextReconstructed]_vars

\* C21: a reset_negative_evidence lowers the probability of no alarm.
C21_ResetNeverLowers ==
    [][(Built /\ ret'.op = "reset_negative_evidence")
        => \A i \in 1..Len(alarm_nodes(builder.bn_model)) :
              ~less(compute_alarm_probabilities(builder').results[i][2],
                    compute_alarm_probabilities(builder).results[i][2])]_vars

-----------------------------------------------------------------------------
(* The scratch files of the fuzzer *)

\* C22: when run_fuzzing_campaign has ended, by its return or by an
\* exception, neither scratch file is left.
C22_ScratchRemoved ==
    ("scratch" \in DOMAIN engine /\ engine.pc \in {"done", "raised"}) => engine.scratch = {}

-----------------------------------------------------------------------------
(* The time budget of a target *)

\* Times are milliseconds, exact fractions of them where a division is
\* involved. 0.1 (seconds): the minimum viable time per target.
MinimumViable == 100

\* min(beta, remaining / len(targets)): Python's min keeps its first
\* argument unless a later one is smaller
min_time(p, q) == IF less(q, p) THEN q ELSE p

\* current_beta = remaining if remaining > 0 else 0.1
floor(remaining) == IF remaining > 0 THEN float(remaining) ELSE float(MinimumViable)

\* current_beta of a round: beta is self.initial_round_budget, remaining the
\* budget left when the targets were selected, targets their number
current_beta(beta, remaining, targets) ==
    IF less(IF targets > 0 THEN min_time(float(beta), Fraction(remaining, targets))
            ELSE float(beta),
            float(MinimumViable))
    THEN floor(remaining)
    ELSE IF targets > 0 THEN min_time(float(beta), Fraction(remaining, targets))
    ELSE float(beta)

\* initial_round_budget of the configuration (10 s when there is none), the
\* budget that is left after the while test and the ranking (the test
\* passed, the ranking took its time), the number of selected targets
Betas == {50, 100, 5000, 10000}
Remainings == {-50, 0, 50, 99, 100, 150, 250, 300, 1000, 30000}
MaxTargets == 3

\* The exploit step of a round up to the call of exploitation_round
CurrentBeta(beta, remaining, targets) ==
    /\ ret.op \in {"init", "current_beta"}
    /\ ret' = [op |-> "current_beta", args |-> <<beta, remaining, targets>>,
               value |-> current_beta(beta, remaining, targets)]
    /\ UNCHANGED <<dg, passed, builder, engine, loop>>

NextBudget ==
    \E beta \in Betas, remaining \in Remainings, targets \in 1..MaxTargets :
        CurrentBeta(beta, remaining, targets)

SpecBudget == InitGraph /\ [][NextBudget]_vars

\* C23: the budget passed on is min(beta, remaining / |targets|), replaced
\* when that is below 0.1 s by the larger of the remaining budget and 0.1 s,
\* and it is never below 0.1 s.
C23_BudgetFloor ==
    ret.op = "current_beta"
      => /\ ~less(ret.value, float(MinimumViable))
         /\ ret.value =
              IF less(min_time(float(ret.args[1]), Fraction(ret.args[2], ret.args[3])),
                      float(MinimumViable))
              THEN float(max(ret.args[2], MinimumViable))
              ELSE min_time(float(ret.args[1]), Fraction(ret.args[2], ret.args[3]))

-----------------------------------------------------------------------------
(* The time of a bug report *)

\* elapsed of fuzz_target: the time from its start_time to the crash or to
\* the end of the budget, in ticks of the clock. Time passes in fuzz_target
\* only, the other steps of a round are instantaneous here.
Durations == {1, 2}

\* FuzzingResult with its time_to_exposure
TimedResults ==
    {[reached |-> r.reached, crashed |-> r.crashed, triggering_input |-> r.triggering_input,
      time_to_exposure |-> d] : r \in FuzzingResults, d \in Durations}

\* time_found=self.stats.total_time + fuzz_result.time_to_exposure
time_found(total_time, fuzz_result) == total_time + fuzz_result.time_to_exposure

\* exploitation_round with the clock: now is the time since start_time of
\* the campaign. observed lists, next to unique_bugs, the clock at which each
\* reported crash was seen and the clock at which its round began.
RECURSIVE timed_round(_, _, _, _)
timed_round(g, targets, found, done) ==
    IF Len(targets) = 0 THEN done
    ELSE IF alarm_line(g, Head(targets)[1]) = 0
    THEN timed_round(g, Tail(targets), Tail(found), done)
    ELSE timed_round(g, Tail(targets), Tail(found),
           [results |-> Append(done.results, <<Head(targets)[1], Head(found)>>),
            now |-> done.now + Head(found).time_to_exposure,
            total_time |-> done.total_time,
            began |-> done.began,
            unique_bugs |->
                IF Head(found).crashed
                   /\ ~\E b \in Range(done.unique_bugs) :
                          b.target_line = alarm_line(g, Head(targets)[1])
                THEN Append(done.unique_bugs,
                            [target_line |-> alarm_line(g, Head(targets)[1]),
                             triggering_input |-> Head(found).triggering_input,
                             time_found |-> time_found(done.total_time, Head(found))])
                ELSE done.unique_bugs,
            observed |->
                IF Head(found).crashed
                   /\ ~\E b \in Range(done.unique_bugs) :
                          b.target_line = alarm_line(g, Head(targets)[1])
                THEN Append(done.observed,
                            [at |-> done.now + Head(found).time_to_exposure,
                             round_began |-> done.began])
                ELSE done.observed])

\* run_fuzzing_campaign: start_time = time.time(), stats.total_time is 0.0
StartCampaignTimed(alpha) ==
    /\ engine.pc = "idle"
    /\ ret.op = "build_network" /\ ret.value = None
    /\ engine' = [pc |-> "while", round_idx |-> 0,
                  reconstruction_interval |-> engine.reconstruction_interval,
                  alpha |-> alpha, targets |-> <<>>, fuzz_results |-> <<>>,
                  stats |-> [rounds_run |-> 0, targets_fuzzed |-> 0, unique_bugs |-> <<>>,
                             history |-> <<>>, total_time |-> 0],
                  reconstructed |-> {}, now |-> 0, observed |-> <<>>]
    /\ UNCHANGED <<dg, ret, passed, builder, loop>>

timed(e, out) ==
    [e EXCEPT !.pc = "feedback",
              !.fuzz_results = out.results,
              !.stats.targets_fuzzed = @ + Len(out.results),
              !.stats.unique_bugs = out.unique_bugs,
              !.now = out.now,
              !.observed = out.observed]

\* fuzz_results = self.exploitation_round(targets, current_beta) on the clock
ExploitTimed ==
    /\ engine.pc = "exploit"
    /\ "now" \in DOMAIN engine
    /\ \E found \in [1..Len(engine.targets) -> TimedResults] :
          /\ engine' = timed(engine,
                timed_round(dg, engine.targets, found,
                    [results |-> <<>>, now |-> engine.now,
                     total_time |-> engine.stats.total_time, began |-> engine.now,
                     unique_bugs |-> engine.stats.unique_bugs, observed |-> engine.observed]))
          /\ ret' = [op |-> "exploitation_round", value |-> engine'.fuzz_results]
    /\ UNCHANGED <<dg, passed, builder, loop>>

\* self.stats.total_time = time.time() - start_time; cleanup; return self.stats
CampaignEndTimed ==
    /\ engine.pc \in {"while", "cleanup"}
    /\ "now" \in DOMAIN engine
    /\ engine' = [engine EXCEPT !.pc = "done", !.stats.total_time = engine.now]
    /\ ret' = [op |-> "run_fuzzing_campaign", value |-> engine'.stats]
    /\ UNCHANGED <<dg, passed, builder, loop>>

NextTimed ==
    \/ FromParser(CampaignPrograms)
    \/ (builder.bn_model = NoModel /\ ApplyRules)
    \/ BuildNetwork
    \/ \E alpha \in Alphas : StartCampaignTimed(alpha)
    \/ RoundStart
    \/ Prioritize
    \/ ExploitTimed
    \/ Feedback
    \/ CampaignEndTimed

SpecTimed == InitGraph /\ [][NextTimed]_vars

\* C24: the time_found of every report is the time since the start of the
\* campaign at which its crash was seen, and so not before its round began.
C24_TimeFound ==
    "observed" \in DOMAIN engine
      => \A i \in 1..Len(engine.stats.unique_bugs) :
            /\ engine.stats.unique_bugs[i].time_found = engine.observed[i].at
            /\ engine.stats.unique_bugs[i].time_found >= engine.observed[i].round_began

-----------------------------------------------------------------------------
(* The two kinds of nodes *)

\* C25: every node is tagged fact or rule, an edge into a rule node starts
\* at a fact node, an edge out of a rule node ends at a fact node, and every
\* rule node has exactly one outgoing edge.
C25_FactsAndRules ==
    /\ \A n \in NodeSet(dg) : dg.attrs[n].type \in {"fact", "rule"}
    /\ \A e \in EdgeSet(dg) :
          /\ e[2] \in RuleNodes(dg) => e[1] \in FactNodes(dg)
          /\ e[1] \in RuleNodes(dg) => e[2] \in FactNodes(dg)
    /\ \A r \in RuleNodes(dg) : Cardinality(Succs(dg, r)) = 1

-----------------------------------------------------------------------------
(* A rule that lost a premise to cycle breaking *)

\* The rule nodes of the graph with a premise edge that the network lacks
BrokenRules(g, bn) ==
    {r \in RuleNodes(g) : \E e \in EdgeSet(g) \ Range(bn.edges) : e[2] = r}

\* C26: in the network that build_network left, a rule node that lost a
\* premise edge to cycle breaking has probability 0 of being 1, whatever the
\* evidence recorded.
C26_BrokenRuleNeverFires ==
    Built =>
        \A r \in BrokenRules(dg, builder.bn_model) :
            query(builder.bn_model, r, builder.evidence).value.den # 0
                => query(builder.bn_model, r, builder.evidence).value.num = 0

-----------------------------------------------------------------------------
(* The fuzzing loop of one target *)

\* generate_initial_seeds(num_seeds=5): random strings of 1 to 20 letters
\* and digits, none of them empty. One string stands for them: what a child
\* is and what its execution shows does not depend on the parent here.
num_seeds == 5
Seeds == {"s"}
generate_initial_seeds == [1..num_seeds -> Seeds]

\* population.append(b"A" * 100); population.append(b"10"); population.append(b"-1")
SpecificSeeds == <<"A*100", "10", "-1">>

\* MutationStrategies.mutate(parent): some bytes; a parent that is not empty
\* has no empty child
mutate(parent) == Inputs

\* What running the executable on an input can show. The sentinel is read
\* from stdout only when the run ended within its timeout.
Executions == {"sentinel_crash", "sentinel_exit", "crash", "exit", "timeout"}

\* DirectedFuzzer.execute_input: (reached, crashed)
execute_input(execution) ==
    [reached |-> execution \in {"sentinel_crash", "sentinel_exit"},
     crashed |-> execution \in {"sentinel_crash", "crash"}]

\* if len(population) > 50: population = population[-50:]
PopulationLimit == 50
recent(population) ==
    IF Len(population) > PopulationLimit
    THEN SubSeq(population, Len(population) - PopulationLimit + 1, Len(population))
    ELSE population

\* population.append(child) on the branch of an input that reached the
\* target and did not crash
admitted_always(population, child, reached, crashed) == Append(population, child)
admitted(population, child, reached, crashed) ==
    IF reached /\ ~crashed THEN Append(population, child) ELSE population

\* if reached: ... if crashed: crashed_target = True; break
crashed_anywhere(reached, crashed) == crashed
crashed_at_target(reached, crashed) == reached /\ crashed

\* One pass of the while loop of fuzz_target on the child executed; pc
\* "left" after break, "fuzzing" before the loop condition is read again.
iteration(f, child, reached, crashed, d) ==
    [f EXCEPT !.iterations = @ + 1,
              !.now = @ + d,
              !.reached_target = @ \/ reached,
              !.best_input = IF reached THEN child ELSE @,
              !.crashed_target = @ \/ crashed_at_target(reached, crashed),
              !.pc = IF crashed_at_target(reached, crashed) THEN "left" ELSE "fuzzing",
              !.population = IF crashed_at_target(reached, crashed) THEN @
                             ELSE recent(admitted(@, child, reached, crashed)),
              !.executed = Append(@, [child |-> child, reached |-> reached, crashed |-> crashed])]

\* The time budgets of a call, in ticks of the clock
TimeBudgets == {0, 2, 3}

\* fuzz_target(target_line, time_budget) up to the loop: compile_target, the
\* initial population, start_time. seeds and executed keep, for the
\* properties, the population the loop began with and what it executed.
\* Without an executable the call is over before the loop.
entered(time_budget, gcc, seeds) ==
    [pc |-> IF gcc = "ok" THEN "fuzzing" ELSE "returned",
     time_budget |-> time_budget, now |-> 0,
     population |-> IF gcc = "ok" THEN seeds \o SpecificSeeds ELSE <<>>,
     seeds |-> IF gcc = "ok" THEN seeds \o SpecificSeeds ELSE <<>>,
     best_input |-> None, reached_target |-> FALSE, crashed_target |-> FALSE,
     iterations |-> 0, executed |-> <<>>]

EnterFuzzTarget(time_budget, gcc) ==
    /\ engine.pc = "idle"
    /\ ret.op = "init"
    /\ \E seeds \in generate_initial_seeds :
          engine' = entered(time_budget, gcc, seeds)
    /\ ret' = IF gcc = "ok" THEN [op |-> "compile_target", value |-> TRUE]
              ELSE [op |-> "fuzz_target", value |-> CompilationFailed]
    /\ UNCHANGED <<dg, passed, builder, loop>>

\* while time.time() - start_time < time_budget: one iteration
Iterate ==
    /\ engine.pc = "fuzzing"
    /\ engine.now < engine.time_budget
    /\ \E i \in 1..Len(engine.population), execution \in Executions, d \in Durations :
         \E child \in mutate(engine.population[i]) :
            /\ engine' = iteration(engine, child, execute_input(execution).reached,
                                   execute_input(execution).crashed, d)
            /\ ret' = [op |-> "execute_input", args |-> <<child, execution>>,
                       value |-> execute_input(execution)]
    /\ UNCHANGED <<dg, passed, builder, loop>>

\* After the loop: elapsed and the FuzzingResult returned
ReturnFuzzTarget ==
    /\ \/ engine.pc = "left"
       \/ engine.pc = "fuzzing" /\ ~(engine.now < engine.time_budget)
    /\ engine' = [engine EXCEPT !.pc = "returned"]
    /\ ret' = [op |-> "fuzz_target",
               value |-> [reached |-> engine.reached_target,
                          crashed |-> engine.crashed_target,
                          triggering_input |-> IF engine.best_input # None
                                               THEN engine.best_input ELSE ""]]
    /\ UNCHANGED <<dg, passed, builder, loop>>

NextFuzz ==
    \/ \E time_budget \in TimeBudgets, gcc \in {"ok", "returncode"} :
          EnterFuzzTarget(time_budget, gcc)
    \/ Iterate
    \/ ReturnFuzzTarget

SpecFuzz == InitGraph /\ [][NextFuzz]_vars

\* The inputs executed that reached the target and crashed there
Gold(executed) == {i \in 1..Len(executed) : executed[i].reached /\ executed[i].crashed}

\* The children executed that reached the target without a crash, in order
Kept(executed) ==
    [i \in 1..Len(SelectSeq(executed, LAMBDA x : x.reached /\ ~x.crashed)) |->
        SelectSeq(executed, LAMBDA x : x.reached /\ ~x.crashed)[i].child]

\* C27: the loop is left at the first input that reached the target and
\* crashed, and the result is crashed with that input; without such an input
\* the loop runs until the budget is used up; the population grows by the
\* inputs that reached the target without crashing and by no other, so not
\* by one that crashed or timed out away from the target.
C27_FuzzLoop ==
    "executed" \in DOMAIN engine =>
        /\ Gold(engine.executed) \subseteq {Len(engine.executed)}
        /\ (engine.pc = "fuzzing") => Gold(engine.executed) = {}
        /\ (engine.pc = "left") => Gold(engine.executed) # {}
        /\ engine.population = recent(engine.seeds \o Kept(engine.executed))
        /\ (engine.pc = "returned" /\ engine.seeds # <<>>) =>
              /\ ret.value.crashed <=> Gold(engine.executed) # {}
              /\ ret.value.crashed =>
                    ret.value.triggering_input = engine.executed[Len(engine.executed)].child
              /\ ~ret.value.crashed => ~(engine.now < engine.time_budget)

\* The call returned at an input that reached the target and crashed, the
\* third executed, after one that crashed away from the target and one that
\* reached it without a crash and was kept.
C27_Witness ==
    /\ "executed" \in DOMAIN engine
    /\ engine.pc = "returned"
    /\ ret.value.crashed
    /\ Len(engine.executed) = 3
    /\ ~engine.executed[1].reached /\ engine.executed[1].crashed
    /\ engine.executed[2].reached /\ ~engine.executed[2].crashed
    /\ Len(engine.population) = Len(engine.seeds) + 1

-----------------------------------------------------------------------------
(* Positive evidence in the rounds that follow *)

\* C28: in a campaign, an alarm whose evidence is 1 keeps the evidence 1
\* through every step, the reconstruction and the feedback of the later
\* rounds included, so that every later round starts with it.
C28_PositiveEvidenceStays ==
    [][\A n \in DOMAIN builder.evidence :
          (engine.pc \in {"while", "prioritize", "exploit", "feedback"} /\ builder.evidence[n] = 1)
             => (n \in DOMAIN builder'.evidence /\ builder'.evidence[n] = 1)]_vars

-----------------------------------------------------------------------------
(* A round whose target is fuzzed input by input *)

\* The program fuzzed: one input and one memory operation on it, so one
\* alarm, Alarm(1), which has a line and is the target of every round
FuzzedPrograms == {{Fact("Input", <<Va>>), Fact("Memory", <<Va, IntArg(1)>>)}}

\* exploitation_round, the call self.fuzzer.fuzz_target(line, time_budget)
\* for the next target: the fuzzing loop runs with the state of the campaign
\* beside it
FuzzNextTarget(time_budget, gcc) ==
    /\ engine.pc = "exploit"
    /\ Len(engine.fuzz_results) < Len(engine.targets)
    /\ alarm_line(dg, engine.targets[Len(engine.fuzz_results) + 1][1]) # 0
    /\ \E seeds \in generate_initial_seeds :
          engine' = entered(time_budget, gcc, seeds) @@ engine
    /\ ret' = IF gcc = "ok" THEN [op |-> "compile_target", value |-> TRUE]
              ELSE [op |-> "fuzz_target", value |-> CompilationFailed]
    /\ UNCHANGED <<dg, passed, builder, loop>>

\* results.append((alarm_id, fuzz_result)); targets_fuzzed += 1; the bug
\* report of a crash; after the last target the round goes on to the feedback
RecordFuzzResult ==
    /\ engine.pc = "returned"
    /\ "targets" \in DOMAIN engine
    /\ engine' = [engine EXCEPT
          !.pc = IF Len(engine.fuzz_results) + 1 = Len(engine.targets)
                 THEN "feedback" ELSE "exploit",
          !.fuzz_results = Append(@, <<engine.targets[Len(engine.fuzz_results) + 1][1], ret.value>>),
          !.stats.targets_fuzzed = @ + 1,
          !.stats.unique_bugs =
              record_bugs(dg, @, << <<engine.targets[Len(engine.fuzz_results) + 1][1], ret.value>> >>)]
    /\ ret' = [op |-> "exploitation_round", value |-> engine'.fuzz_results]
    /\ UNCHANGED <<dg, passed, builder, loop>>

NextFuzzedRounds ==
    \/ FromParser(FuzzedPrograms)
    \/ (builder.bn_model = NoModel /\ ApplyRules)
    \/ BuildNetwork
    \/ \E interval \in Intervals : StartCampaign(interval, [num |-> 1, den |-> 1])
    \/ RoundStart
    \/ Prioritize
    \/ \E time_budget \in TimeBudgets, gcc \in {"ok", "returncode"} :
          FuzzNextTarget(time_budget, gcc)
    \/ Iterate
    \/ ReturnFuzzTarget
    \/ RecordFuzzResult
    \/ Feedback
    \/ CampaignEnd

SpecFuzzedRounds == InitGraph /\ [][NextFuzzedRounds]_vars

\* The executions of the call that printed the sentinel, and those that
\* crashed without it
Sentinels(executed) == {i \in 1..Len(executed) : executed[i].reached}
CrashesBefore(executed) == {i \in 1..Len(executed) : executed[i].crashed /\ ~executed[i].reached}

\* What holds of every result, bug report and new positive evidence entry:
\* crashed implies reached, and an execution printed the sentinel and crashed
FromTheTarget ==
    /\ ret'.op = "fuzz_target" => (ret'.value.crashed => ret'.value.reached)
    /\ (engine.pc = "returned" /\ engine'.pc = "feedback"
          /\ engine'.stats.unique_bugs # engine.stats.unique_bugs)
          => Gold(engine.executed) # {}
    /\ (engine.pc = "feedback" /\ engine'.pc = "while") =>
          \A n \in DOMAIN builder'.evidence :
              (builder'.evidence[n] = 1 /\ ~(n \in DOMAIN builder.evidence /\ builder.evidence[n] = 1))
                 => Gold(engine.executed) # {}

\* C29 as stated: every result has crashed only with reached, every bug
\* report and every positive evidence entry comes from an execution that
\* printed the sentinel, and a call in which an input crashed before the
\* target was reached leaves negative evidence for the alarm.
C29_CrashBeforeTarget ==
    [][/\ FromTheTarget
       /\ (engine.pc = "feedback" /\ engine'.pc = "while" /\ CrashesBefore(engine.executed) # {})
             => ("Alarm(1)" \in DOMAIN builder'.evidence /\ builder'.evidence["Alarm(1)"] = 0)]_vars

\* C29, amended: as above, where the negative evidence follows a call in
\* which inputs crashed and no input printed the sentinel.
C29_NeverReached ==
    [][/\ FromTheTarget
       /\ (engine.pc = "feedback" /\ engine'.pc = "while" /\ CrashesBefore(engine.executed) # {}
             /\ Sentinels(engine.executed) = {})
             => ("Alarm(1)" \in DOMAIN builder'.evidence /\ builder'.evidence["Alarm(1)"] = 0)]_vars

\* After the feedback of a call with a crash and without a sentinel the
\* alarm has negative evidence and no bug is reported.
C29_Witness ==
    /\ ret.op = "incorporate_feedback"
    /\ "executed" \in DOMAIN engine
    /\ CrashesBefore(engine.executed) # {}
    /\ Sentinels(engine.executed) = {}
    /\ "Alarm(1)" \in DOMAIN builder.evidence /\ builder.evidence["Alarm(1)"] = 0
    /\ engine.stats.unique_bugs = <<>>

-----------------------------------------------------------------------------
(* What build_network leaves alone *)

\* builder.set_evidence(variable, value) on an alarm of the graph, before or
\* after a network was built
SetEvidenceOnAlarm(variable, value) ==
    /\ ret.op \in {"apply_rules", "build_network", "set_evidence"}
    /\ variable \in dg.facts /\ startswith_Alarm(variable)
    /\ Cardinality(DOMAIN builder.evidence \cup {variable}) <= MaxPins
    /\ builder' = [builder EXCEPT !.evidence = set_evidence(@, variable, value)]
    /\ ret' = [op |-> "set_evidence", args |-> <<variable, value>>, value |-> None]
    /\ UNCHANGED <<dg, passed, engine, loop>>

\* builder.build_network() on the analysed graph, the first time or again
Rebuild ==
    /\ ret.op \in {"apply_rules", "build_network", "set_evidence"}
    /\ \E out \in build_network(dg, builder.bn_model) :
          /\ builder' = [builder EXCEPT !.bn_model = out.bn_model]
          /\ ret' = [op |-> "build_network", value |-> out.raised]
    /\ UNCHANGED <<dg, passed, engine, loop>>

\* The programs built: an input, a self assignment, a round trip through a
\* second variable, a flow from a third and a memory operation; without the
\* input no rule uses the other facts
RebuiltPrograms ==
    SUBSET {Fact("Input", <<Va>>), Fact("Flow", <<Va, Va>>), Fact("Flow", <<Va, Vb>>),
            Fact("Flow", <<Vb, Va>>), Fact("Flow", <<Vc, Va>>), Fact("Memory", <<Va, IntArg(1)>>)}

NextRebuilt ==
    \/ FromParser(RebuiltPrograms)
    \/ (ret.op = "from_parser" /\ ApplyRules)
    \/ \E variable \in dg.facts, value \in BOOLEAN : SetEvidenceOnAlarm(variable, value)
    \/ Rebuild

SpecRebuilt == InitGraph /\ [][NextRebuilt]_vars

\* C30: a call of build_network leaves the derivation graph and the evidence
\* as they were; the network it returns has the nodes of the graph and edges
\* of the graph only, all of them when the graph has no cycle.
C30_BuildFrame ==
    [][(ret'.op = "build_network" /\ ret.op \in {"apply_rules", "build_network", "set_evidence"}) =>
          /\ dg' = dg
          /\ builder'.evidence = builder.evidence
          /\ ret'.value = None =>
                /\ Range(builder'.bn_model.nodes) = NodeSet(dg)
                /\ Range(builder'.bn_model.edges) \subseteq EdgeSet(dg)
                /\ is_directed_acyclic_graph(NodeSet(dg), EdgeSet(dg))
                      => Range(builder'.bn_model.edges) = EdgeSet(dg)]_vars

\* A network was built, with evidence recorded, from a graph with a cycle
\* and with a fact that no rule uses: it lacks an edge and has that fact.
C30_Witness ==
    /\ ret.op = "build_network" /\ ret.value = None
    /\ builder.evidence # NoEvidence
    /\ Len(builder.bn_model.edges) < Len(dg.edges)
    /\ \E n \in NodeSet(dg) : /\ \A e \in EdgeSet(dg) : e[1] # n /\ e[2] # n
                              /\ n \in Range(builder.bn_model.nodes)
====
